---- MODULE Spec2Model ----
(***************************************************************************)
(* Model of the Avalon drivers and monitors of cocotb-bus                  *)
(* (src/cocotb_bus/drivers/avalon.py, src/cocotb_bus/monitors/avalon.py).  *)
(*                                                                         *)
(* Execution model.  Every coroutine is a task that is suspended either on *)
(* the next rising clock edge or on the read-only (sample) phase of the    *)
(* current time step.  A signal write made by a task is deferred: a task   *)
(* that runs at a clock edge still reads the values settled in the cycle   *)
(* before that edge.  One clock cycle is therefore                         *)
(*     edge  ->  drive phase (writes)  ->  read-only phase (samples)       *)
(* and the monitors, which read right after the edge, see the values that  *)
(* were settled in the previous cycle.                                     *)
(*                                                                         *)
(* Bit vectors (BinaryValue.binstr) are sequences over "0", "1", "x", most *)
(* significant bit first.                                                  *)
(***************************************************************************)
EXTENDS Integers, Sequences, FiniteSets, TLC

(***************************************************************************)
(* Bounds of the model.                                                    *)
(***************************************************************************)
\* bytes per streaming word of the word-level bus (len(bus.data) / 8)
StWordBytes == 2
\* number of send calls of the word-level streaming driver
MaxWords == 3
\* largest "on" and "off" count a valid generator yields
MaxOn == 2
MaxOff == 2
\* symbols (bytes) per word of the packetized bus (len(bus.data) / dataBitsPerSymbol)
PkWordBytes == 4
\* width of the channel wire of the packetized bus
PkChannelBits == 2
\* the invalidTimeout a packetized monitor is configured with, when not 0
PkTimeout == 2
\* payloads sent one after another through one packetized driver
MaxSends == 2
\* packets a packetized monitor delivers before the model stops feeding it
MaxDelivered == 1
\* words of a packet the arbitrary bus traffic accumulates in the monitor
MaxOpenWords == 2

\* words accepted by a monitor whose sampled wires are on record
MaxAccepted == 3
\* bytes per word of the memory-mapped bus (len(bus.readdata) / 8)
MmDataBytes == 2
\* callers of one master instance
MmCallers == 2
\* read and write calls made on the master in one behaviour
MaxCalls == 3
\* largest readlatency_max of a responder
MaxLatency == 2
\* width of the address wire
MmAddrBits == 3
\* largest burstcount a bus master asks for
MaxBurst == 2
\* largest MaxWaitReqLen of a responder
MaxStall == 2
\* width of the burstcount wire
MmBurstBits == 2

\* responders constructed in one run
MaxInstances == 3

(***************************************************************************)
(* BinaryValue: bit strings and their conversions.                         *)
(***************************************************************************)
RECURSIVE Pow2(_)
Pow2(n) == IF n = 0 THEN 1 ELSE 2 * Pow2(n - 1)

\* "x" * n
XBits(n) == [i \in 1..n |-> "x"]

ZeroBits(n) == [i \in 1..n |-> "0"]

RECURSIVE IntToBits(_, _)
\* BinaryValue(n_bits=n, bigEndian=False).assign(v) for an integer 0 <= v < 2^n
IntToBits(v, n) ==
    IF n = 0 THEN <<>>
    ELSE Append(IntToBits(v \div 2, n - 1), IF v % 2 = 1 THEN "1" ELSE "0")

RECURSIVE BytesToBits(_)
\* ''.join(format(char, "08b") for char in val)
BytesToBits(bytes) ==
    IF bytes = <<>> THEN <<>>
    ELSE IntToBits(bytes[1], 8) \o BytesToBits(SubSeq(bytes, 2, Len(bytes)))

\* BinaryValue.is_resolvable
IsResolvable(bits) == \A i \in 1..Len(bits) : bits[i] \in {"0", "1"}

RECURSIVE BitsToInt(_)
\* BinaryValue.integer of a resolvable bit string
BitsToInt(bits) ==
    IF bits = <<>> THEN 0
    ELSE 2 * BitsToInt(SubSeq(bits, 1, Len(bits) - 1))
         + (IF bits[Len(bits)] = "1" THEN 1 ELSE 0)

\* BinaryValue.__bool__: true iff some bit is "1"
Truthy(bits) == \E i \in 1..Len(bits) : bits[i] = "1"

Reverse(s) == [i \in 1..Len(s) |-> s[Len(s) + 1 - i]]

\* BinaryValue.buff (getter): pad to whole bytes on the left, cut into bytes
\* from the left; big endian keeps that order, little endian reverses it.
GetBuff(bits, bigEndian) ==
    LET pad    == (8 - (Len(bits) % 8)) % 8
        padded == ZeroBits(pad) \o bits
        nb     == Len(padded) \div 8
        bytes  == [k \in 1..nb |-> BitsToInt(SubSeq(padded, 8 * (k - 1) + 1, 8 * k))]
    IN  IF bigEndian THEN bytes ELSE Reverse(bytes)

(***************************************************************************)
(* State.                                                                  *)
(***************************************************************************)
VARIABLES
    \* ---- word-level streaming bus: AvalonST driver and AvalonST monitor
    st_phase,   \* "drive": tasks woken by the edge run; "ro": read-only phase
    st_valid,   \* bus.valid
    st_data,    \* bus.data
    st_ready,   \* bus.ready, driven by the sink
    st_cfg,     \* wiring and config: hasReady, firstSymbolInHighOrderBits, throttled
    st_drv,     \* AvalonST._driver_send: position, throttle counters, word in flight
    st_sent,    \* words handed to _driver_send, in call order
    st_recv,    \* transactions the monitor gave to _recv, in order
    st_hist,    \* what the sink and the callers did so far
    \* ---- packetized streaming bus: AvalonSTPkts driver and AvalonSTPkts monitor
    pk_phase,   \* "drive" or "ro", as st_phase
    pk_bus,     \* the wires: valid, ready, data, startofpacket, endofpacket, empty, channel
    pk_reset,   \* BusMonitor.in_reset in the settled cycle
    pk_cfg,     \* wiring and config of the bus
    pk_mon,     \* AvalonSTPkts._monitor_recv: its locals, in_pkt, what it raised and delivered
    pk_hist,    \* what the bus traffic did so far, recorded from the wires alone
    pk_drv,     \* AvalonSTPkts._send_string: position, locals, throttle counters
    pk_calls,   \* the send calls made: payload, sync, channel
    \* ---- memory-mapped bus: AvalonMaster and AvalonMemory
    mm_phase,   \* "drive" or "ro", as st_phase
    mm_bus,     \* the wires: address, read, write, writedata, readdata, readdatavalid,
                \* byteenable, waitrequest
    mm_cfg,     \* wiring and properties of the bus
    mm_busy,    \* BusDriver.busy: the master's lock
    mm_call,    \* per caller: the read or write it is in, and where
    mm_mem,     \* AvalonMemory: _mem, _responses, what _respond raised
    mm_dut,     \* a bus master other than AvalonMaster that drives the responder
    mm_hist,    \* the calls completed, what was written per address, the responses due
    mm_obs,     \* what an observer of the wires of the responder has counted
    \* ---- AvalonMemory._avalon_properties over a run of constructions
    ap_class,   \* the table held by the class
    ap_made     \* per constructed responder: the overrides given, the table it found

stVars == <<st_phase, st_valid, st_data, st_ready, st_cfg, st_drv, st_sent, st_recv, st_hist>>

pkVars == <<pk_phase, pk_bus, pk_reset, pk_cfg, pk_mon, pk_hist, pk_drv, pk_calls>>

mmVars == <<mm_phase, mm_bus, mm_cfg, mm_busy, mm_call, mm_mem, mm_dut, mm_hist>>

obVars == <<mm_obs>>

apVars == <<ap_class, ap_made>>

vars == <<stVars, pkVars, mmVars, obVars, apVars>>

(***************************************************************************)
(* ValidatedBusDriver: the on/off throttle profile.                        *)
(***************************************************************************)
\* what next(valid_generator) can end in: a pair (on, off) with on >= 1, or
\* exhaustion; without a generator every cycle is valid
Draws(throttled) ==
    IF throttled
    THEN [onTrue : {FALSE}, on : 1..MaxOn, off : 0..MaxOff]
         \cup {[onTrue |-> TRUE, on |-> 0, off |-> 0]}
    ELSE {[onTrue |-> TRUE, on |-> 0, off |-> 0]}

\* ValidatedBusDriver._next_valids
NextValids(d, draw) ==
    IF draw.onTrue
    THEN [d EXCEPT !.onTrue = TRUE, !.on = 0]
    ELSE [d EXCEPT !.onTrue = FALSE, !.on = draw.on, !.off = draw.off]

\* "not self.on"
IsOff(d) == ~d.onTrue /\ d.on = 0

\* "if self.on is not True and self.on: self.on -= 1"
ConsumeValid(d) == IF ~d.onTrue /\ d.on > 0 THEN [d EXCEPT !.on = d.on - 1] ELSE d

(***************************************************************************)
(* AvalonST driver (word level).                                           *)
(***************************************************************************)
StDataBits == 8 * StWordBytes

\* the words the callers send: both bytes matter, and one word repeats a byte
StWords == {1, 258}

\* _driver_send from "Consume a valid cycle" to its next await: valid and
\* the word are driven, then the task waits for ready or for the edge
StDriveWord(d, hasReady) ==
    [drv   |-> [ConsumeValid(d) EXCEPT !.pc = IF hasReady THEN "ready" ELSE "final"],
     valid |-> "1",
     data  |-> IntToBits(d.cur, StDataBits)]

\* _driver_send from "Insert a gap where valid is low" on
StGapOrDrive(d, draw, hasReady, data) ==
    IF IsOff(d)
    THEN IF d.off > 0
         THEN [drv |-> [d EXCEPT !.pc = "gap", !.gap = d.off], valid |-> "0", data |-> data]
         ELSE StDriveWord(NextValids(d, draw), hasReady)
    ELSE StDriveWord(d, hasReady)

\* StDriverEdge with the final deassertion of valid left out
StDriverEdgeKeepsValid(d, draw, hasReady, valid, data) ==
    CASE d.pc = "sync"  -> StGapOrDrive(d, draw, hasReady, data)
      [] d.pc = "gap"   -> IF d.gap > 1
                           THEN [drv |-> [d EXCEPT !.gap = d.gap - 1], valid |-> valid, data |-> data]
                           ELSE StDriveWord(NextValids([d EXCEPT !.gap = 0], draw), hasReady)
      [] d.pc = "ready_edge" -> [drv |-> [d EXCEPT !.pc = "ready"], valid |-> valid, data |-> data]
      [] d.pc = "final" -> [drv |-> [d EXCEPT !.pc = "idle"], valid |-> valid, data |-> data]
      [] OTHER          -> [drv |-> d, valid |-> valid, data |-> data]

\* the driver task resumed by a rising edge
StDriverEdge(d, draw, hasReady, valid, data) ==
    CASE d.pc = "sync"  -> StGapOrDrive(d, draw, hasReady, data)
      [] d.pc = "gap"   -> IF d.gap > 1
                           THEN [drv |-> [d EXCEPT !.gap = d.gap - 1], valid |-> valid, data |-> data]
                           ELSE StDriveWord(NextValids([d EXCEPT !.gap = 0], draw), hasReady)
      [] d.pc = "ready_edge" -> [drv |-> [d EXCEPT !.pc = "ready"], valid |-> valid, data |-> data]
      [] d.pc = "final" -> [drv |-> [d EXCEPT !.pc = "idle"], valid |-> "0", data |-> XBits(StDataBits)]
      [] OTHER          -> [drv |-> d, valid |-> valid, data |-> data]

\* _wait_ready at the read-only phase
StWaitReady(d, ready) ==
    IF d.pc = "ready"
    THEN [d EXCEPT !.pc = IF ready = "1" THEN "final" ELSE "ready_edge"]
    ELSE d

(***************************************************************************)
(* AvalonST monitor (word level).                                          *)
(***************************************************************************)
\* MonValid that does not look at ready
MonValidAnyReady(hasReady, valid, ready) == valid = "1"

\* valid() of the monitors
MonValid(hasReady, valid, ready) ==
    IF hasReady THEN valid = "1" /\ ready = "1" ELSE valid = "1"

\* one iteration of AvalonST._monitor_recv
StMonitorRecv(recv, hasReady, bigEndian, valid, ready, data) ==
    IF MonValid(hasReady, valid, ready)
    THEN Append(recv, GetBuff(data, bigEndian))
    ELSE recv

(***************************************************************************)
(* Word-level streaming bus: the actions.                                  *)
(***************************************************************************)
StInit ==
    /\ st_phase = "drive"
    /\ st_valid = "0"
    /\ st_data = XBits(StDataBits)
    /\ st_cfg \in [hasReady : BOOLEAN, bigEndian : BOOLEAN, throttled : BOOLEAN]
    /\ st_ready \in (IF st_cfg.hasReady THEN {"0", "1"} ELSE {"1"})
    /\ \E draw \in Draws(st_cfg.throttled) :
          st_drv = NextValids([pc |-> "idle", onTrue |-> TRUE, on |-> 0, off |-> 0,
                               gap |-> 0, cur |-> 0], draw)
    /\ st_sent = <<>>
    /\ st_recv = <<>>
    /\ st_hist = [readyHigh |-> st_ready = "1"]

\* a caller awaits _driver_send(w, sync)
StSend(w, sync) ==
    /\ st_phase = "drive"
    /\ st_drv.pc = "idle"
    /\ Len(st_sent) < MaxWords
    /\ st_sent' = Append(st_sent, w)
    /\ \E draw \in Draws(st_cfg.throttled) :
          LET d == [st_drv EXCEPT !.cur = w]
              r == IF sync
                   THEN [drv |-> [d EXCEPT !.pc = "sync"], valid |-> "0", data |-> st_data]
                   ELSE StGapOrDrive(d, draw, st_cfg.hasReady, st_data)
          IN  /\ st_drv' = r.drv
              /\ st_valid' = r.valid
              /\ st_data' = r.data
    /\ UNCHANGED <<st_phase, st_ready, st_cfg, st_recv, st_hist>>

\* the read-only phase of the cycle: the driver samples ready
StReadOnly ==
    /\ st_phase = "drive"
    /\ st_phase' = "ro"
    /\ st_drv' = StWaitReady(st_drv, st_ready)
    /\ UNCHANGED <<st_valid, st_data, st_ready, st_cfg, st_sent, st_recv, st_hist>>

\* the next rising edge: the monitor samples the settled cycle, the driver
\* resumes, the sink drives ready for the new cycle
StClockEdge ==
    /\ st_phase = "ro"
    /\ st_phase' = "drive"
    /\ st_recv' = StMonitorRecv(st_recv, st_cfg.hasReady, st_cfg.bigEndian,
                                st_valid, st_ready, st_data)
    /\ \E draw \in Draws(st_cfg.throttled) :
          LET r == StDriverEdge(st_drv, draw, st_cfg.hasReady, st_valid, st_data)
          IN  /\ st_drv' = r.drv
              /\ st_valid' = r.valid
              /\ st_data' = r.data
    /\ \E rdy \in (IF st_cfg.hasReady THEN {"0", "1"} ELSE {"1"}) :
          /\ st_ready' = rdy
          /\ st_hist' = [st_hist EXCEPT !.readyHigh = @ /\ rdy = "1"]
    /\ UNCHANGED <<st_cfg, st_sent>>

StNext ==
    \/ \E w \in StWords, sync \in BOOLEAN : StSend(w, sync) /\ UNCHANGED <<pkVars, mmVars, obVars, apVars>>
    \/ StReadOnly /\ UNCHANGED <<pkVars, mmVars, obVars, apVars>>
    \/ StClockEdge /\ UNCHANGED <<pkVars, mmVars, obVars, apVars>>

(***************************************************************************)
(* AvalonSTPkts monitor (packetized).                                      *)
(***************************************************************************)
PkDataBits == 8 * PkWordBytes

\* the empty wire is wide enough for every count 0..PkWordBytes
PkEmptyBits == PkWordBytes

\* channel = None
NoChannel == -1

\* the monitor task ends with exception e
Raise(m, e) == [m EXCEPT !.err = e]

\* value[:-k] and value[k:] of a Python string, k > 0
StripTrailing(bits, k) == SubSeq(bits, 1, Len(bits) - k)
StripLeading(bits, k) == SubSeq(bits, k + 1, Len(bits))

\* PkMonStart that starts over on a second start-of-packet instead of raising
PkMonStartOver(m, bus) ==
    IF bus.startofpacket = "1" THEN [m EXCEPT !.pkt = <<>>, !.in_pkt = TRUE] ELSE m

\* "if self.bus.startofpacket.value:" ... self.in_pkt.set()
PkMonStart(m, bus) ==
    IF bus.startofpacket = "1"
    THEN IF m.pkt # <<>>
         THEN Raise(m, "duplicate_sop")
         ELSE [m EXCEPT !.pkt = <<>>, !.in_pkt = TRUE]
    ELSE m

\* PkMonInPacket that opens a packet on a word without start-of-packet
PkMonInPacketOpens(m) == [m EXCEPT !.in_pkt = TRUE]

\* "if not self.in_pkt.is_set(): raise"
PkMonInPacket(m) == IF ~m.in_pkt THEN Raise(m, "outside_packet") ELSE m

\* PkMonData that strips the empty symbols from the other end of the word
PkMonDataOtherEnd(m, bus, cfg) ==
    IF bus.endofpacket # "1"
    THEN IF IsResolvable(bus.data)
         THEN [m EXCEPT !.pkt = @ \o GetBuff(bus.data, cfg.bigEndian)]
         ELSE Raise(m, "ValueError")
    ELSE IF cfg.useEmpty /\ ~IsResolvable(bus.empty)
         THEN Raise(m, "ValueError")
         ELSE LET masked == cfg.useEmpty /\ BitsToInt(bus.empty) # 0
                  empty  == BitsToInt(bus.empty) * cfg.dataBitsPerSymbol
                  value  == IF masked
                            THEN IF cfg.bigEndian
                                 THEN StripLeading(bus.data, empty)
                                 ELSE StripTrailing(bus.data, empty)
                            ELSE bus.data
                  bound  == m.emptyBound \/ masked
              IN  IF ~IsResolvable(value)
                  THEN Raise([m EXCEPT !.emptyBound = bound],
                             IF bound THEN "unresolvable" ELSE "UnboundLocalError")
                  ELSE [m EXCEPT !.emptyBound = bound,
                                 !.pkt = @ \o GetBuff(value, cfg.bigEndian)]

\* "Handle empty and X's in empty / data" ... "pkt += vec.buff"
PkMonData(m, bus, cfg) ==
    IF bus.endofpacket # "1"
    THEN IF IsResolvable(bus.data)
         THEN [m EXCEPT !.pkt = @ \o GetBuff(bus.data, cfg.bigEndian)]
         ELSE Raise(m, "ValueError")
    ELSE IF cfg.useEmpty /\ ~IsResolvable(bus.empty)
         THEN Raise(m, "ValueError")
         ELSE LET masked == cfg.useEmpty /\ BitsToInt(bus.empty) # 0
                  empty  == BitsToInt(bus.empty) * cfg.dataBitsPerSymbol
                  value  == IF masked
                            THEN IF cfg.bigEndian
                                 THEN StripTrailing(bus.data, empty)
                                 ELSE StripLeading(bus.data, empty)
                            ELSE bus.data
                  bound  == m.emptyBound \/ masked
              IN  IF ~IsResolvable(value)
                  THEN Raise([m EXCEPT !.emptyBound = bound],
                             IF bound THEN "unresolvable" ELSE "UnboundLocalError")
                  ELSE [m EXCEPT !.emptyBound = bound,
                                 !.pkt = @ \o GetBuff(value, cfg.bigEndian)]

\* PkMonChannel that follows the channel of every word
PkMonChannelFollows(m, bus, cfg) ==
    IF ~cfg.hasChannel THEN m
    ELSE IF ~IsResolvable(bus.channel) THEN Raise(m, "ValueError")
    ELSE IF BitsToInt(bus.channel) > cfg.maxChannel
         THEN Raise([m EXCEPT !.channel = BitsToInt(bus.channel)], "channel_max")
         ELSE [m EXCEPT !.channel = BitsToInt(bus.channel)]

\* "if hasattr(self.bus, 'channel'):" ...
PkMonChannel(m, bus, cfg) ==
    IF ~cfg.hasChannel THEN m
    ELSE IF ~IsResolvable(bus.channel) THEN Raise(m, "ValueError")
    ELSE IF m.channel = NoChannel
         THEN IF BitsToInt(bus.channel) > cfg.maxChannel
              THEN Raise([m EXCEPT !.channel = BitsToInt(bus.channel)], "channel_max")
              ELSE [m EXCEPT !.channel = BitsToInt(bus.channel)]
         ELSE IF BitsToInt(bus.channel) # m.channel
              THEN Raise(m, "channel_changed")
              ELSE m

\* PkMonEnd that delivers and keeps its buffer
PkMonEndKeepsBuffer(m, bus, cfg) ==
    IF bus.endofpacket = "1"
    THEN [m EXCEPT !.delivered = Append(@, [data    |-> m.pkt,
                                             channel |-> IF cfg.reportChannel
                                                         THEN m.channel ELSE NoChannel]),
                   !.in_pkt = FALSE, !.channel = NoChannel]
    ELSE m

\* "if self.bus.endofpacket.value:" ... self._recv(...)
PkMonEnd(m, bus, cfg) ==
    IF bus.endofpacket = "1"
    THEN [m EXCEPT !.delivered = Append(@, [data    |-> m.pkt,
                                             channel |-> IF cfg.reportChannel
                                                         THEN m.channel ELSE NoChannel]),
                   !.pkt = <<>>, !.in_pkt = FALSE, !.channel = NoChannel]
    ELSE m

\* the "if valid():" branch; an exception ends the task where it is raised
PkMonAccept(m, bus, cfg) ==
    LET m0 == [m EXCEPT !.invalid_cyclecount = 0]
        m1 == PkMonStart(m0, bus)
        m2 == IF m1.err = "none" THEN PkMonInPacket(m1) ELSE m1
        m3 == IF m2.err = "none" THEN PkMonData(m2, bus, cfg) ELSE m2
        m4 == IF m3.err = "none" THEN PkMonChannel(m3, bus, cfg) ELSE m3
    IN  IF m4.err = "none" THEN PkMonEnd(m4, bus, cfg) ELSE m4

\* PkMonStall with ">" for ">="
PkMonStallLate(m, cfg) ==
    IF m.in_pkt
    THEN IF cfg.invalidTimeout # 0 /\ m.invalid_cyclecount + 1 > cfg.invalidTimeout
         THEN Raise([m EXCEPT !.invalid_cyclecount = @ + 1], "timeout")
         ELSE [m EXCEPT !.invalid_cyclecount = @ + 1]
    ELSE m

\* the "else:" branch: a cycle with no accepted word
PkMonStall(m, cfg) ==
    IF m.in_pkt
    THEN IF cfg.invalidTimeout # 0 /\ m.invalid_cyclecount + 1 >= cfg.invalidTimeout
         THEN Raise([m EXCEPT !.invalid_cyclecount = @ + 1], "timeout")
         ELSE [m EXCEPT !.invalid_cyclecount = @ + 1]
    ELSE m

\* PkMonReset that keeps the open packet
PkMonResetKeepsPacket(m) == [m EXCEPT !.invalid_cyclecount = 0]

\* "if self.in_reset:" ... continue
PkMonReset(m) ==
    [m EXCEPT !.in_pkt = FALSE, !.pkt = <<>>, !.invalid_cyclecount = 0, !.channel = NoChannel]

\* PkMonitorRecv of a task that goes on after it raised
PkMonitorRecvGoesOn(m, bus, cfg, inReset) ==
    IF inReset THEN PkMonReset([m EXCEPT !.err = "none"])
    ELSE IF MonValid(cfg.hasReady, bus.valid, bus.ready)
    THEN PkMonAccept([m EXCEPT !.err = "none"], bus, cfg)
    ELSE PkMonStall([m EXCEPT !.err = "none"], cfg)

\* one iteration of AvalonSTPkts._monitor_recv, at a rising edge
PkMonitorRecv(m, bus, cfg, inReset) ==
    IF m.err # "none" THEN m
    ELSE IF inReset THEN PkMonReset(m)
    ELSE IF MonValid(cfg.hasReady, bus.valid, bus.ready) THEN PkMonAccept(m, bus, cfg)
    ELSE PkMonStall(m, cfg)

\* the monitor after construction
PkMonInit ==
    [pkt |-> <<>>, invalid_cyclecount |-> 0, channel |-> NoChannel, in_pkt |-> FALSE,
     emptyBound |-> FALSE, err |-> "none", delivered |-> <<>>]

(***************************************************************************)
(* AvalonSTPkts driver (packetized).                                       *)
(***************************************************************************)
\* BinaryValue.buff (setter) of a word of n bits, for at most n / 8 bytes:
\* little endian reverses the bytes; a short value is padded with zeros, on
\* the right when big endian and on the left otherwise
SetBuff(bytes, n, bigEndian) ==
    LET bits == BytesToBits(IF bigEndian THEN bytes ELSE Reverse(bytes))
    IN  IF bigEndian THEN bits \o ZeroBits(n - Len(bits))
        ELSE ZeroBits(n - Len(bits)) \o bits

\* int(len(self.bus.data) / self.config["dataBitsPerSymbol"])
BusWidth(cfg) == PkDataBits \div cfg.dataBitsPerSymbol

\* the driver after construction, before the first draw of the throttle
PkDrvInit ==
    [pc |-> "idle", onTrue |-> TRUE, on |-> 0, off |-> 0, gap |-> 0,
     string |-> <<>>, firstword |-> TRUE, channel |-> NoChannel, waited |-> FALSE,
     err |-> "none"]

\* PkEmptyCount giving the count of the valid symbols of the last word
PkEmptyCountValid(string, cfg) == Len(string)

\* "self.bus.empty.value = bus_width - len(string)"
PkEmptyCount(string, cfg) == BusWidth(cfg) - Len(string)

\* PkDriveWord that marks every word as the start of a packet
PkDriveWordAllSop(d, bus, cfg) ==
    LET d1     == ConsumeValid(d)
        b1     == [bus EXCEPT !.valid = "1"]
        outOf  == cfg.hasChannel /\ d.channel # NoChannel
                  /\ (d.channel > cfg.maxChannel \/ d.channel < 0)
        b2     == IF cfg.hasChannel
                  THEN [b1 EXCEPT !.channel = IntToBits(IF d.channel = NoChannel THEN 0
                                                        ELSE d.channel, PkChannelBits)]
                  ELSE b1
        b3     == [b2 EXCEPT !.startofpacket = "1"]
        nbytes == IF Len(d.string) < BusWidth(cfg) THEN Len(d.string) ELSE BusWidth(cfg)
        word   == SetBuff(SubSeq(d.string, 1, nbytes), PkDataBits, cfg.bigEndian)
        last   == Len(d.string) <= BusWidth(cfg)
        b4     == IF last
                  THEN [b3 EXCEPT !.endofpacket = "1",
                                  !.empty = IF cfg.useEmpty
                                            THEN IntToBits(PkEmptyCount(d.string, cfg), PkEmptyBits)
                                            ELSE @]
                  ELSE b3
    IN  IF outOf
        THEN [drv |-> [d1 EXCEPT !.pc = "error", !.err = "channel_range"], bus |-> b1]
        ELSE [drv |-> [d1 EXCEPT !.pc = IF cfg.hasReady THEN "ready" ELSE "next",
                                 !.firstword = FALSE,
                                 !.string = IF last THEN <<>>
                                            ELSE SubSeq(d.string, BusWidth(cfg) + 1, Len(d.string))],
              bus |-> [b4 EXCEPT !.data = word]]

\* _send_string, "Consume a valid cycle" ... "await self._wait_ready()"
PkDriveWord(d, bus, cfg) ==
    LET d1     == ConsumeValid(d)
        b1     == [bus EXCEPT !.valid = "1"]
        outOf  == cfg.hasChannel /\ d.channel # NoChannel
                  /\ (d.channel > cfg.maxChannel \/ d.channel < 0)
        b2     == IF cfg.hasChannel
                  THEN [b1 EXCEPT !.channel = IntToBits(IF d.channel = NoChannel THEN 0
                                                        ELSE d.channel, PkChannelBits)]
                  ELSE b1
        b3     == [b2 EXCEPT !.startofpacket = IF d.firstword THEN "1" ELSE "0"]
        nbytes == IF Len(d.string) < BusWidth(cfg) THEN Len(d.string) ELSE BusWidth(cfg)
        word   == SetBuff(SubSeq(d.string, 1, nbytes), PkDataBits, cfg.bigEndian)
        last   == Len(d.string) <= BusWidth(cfg)
        b4     == IF last
                  THEN [b3 EXCEPT !.endofpacket = "1",
                                  !.empty = IF cfg.useEmpty
                                            THEN IntToBits(PkEmptyCount(d.string, cfg), PkEmptyBits)
                                            ELSE @]
                  ELSE b3
    IN  IF outOf
        THEN [drv |-> [d1 EXCEPT !.pc = "error", !.err = "channel_range"], bus |-> b1]
        ELSE [drv |-> [d1 EXCEPT !.pc = IF cfg.hasReady THEN "ready" ELSE "next",
                                 !.firstword = FALSE,
                                 !.string = IF last THEN <<>>
                                            ELSE SubSeq(d.string, BusWidth(cfg) + 1, Len(d.string))],
              bus |-> [b4 EXCEPT !.data = word]]

\* _send_string, "Insert a gap where valid is low" on
PkGapOrDrive(d, draw, bus, cfg) ==
    IF IsOff(d)
    THEN IF d.off > 0
         THEN [drv |-> [d EXCEPT !.pc = "gap", !.gap = d.off], bus |-> [bus EXCEPT !.valid = "0"]]
         ELSE PkDriveWord(NextValids(d, draw), [bus EXCEPT !.valid = "0"], cfg)
    ELSE PkDriveWord(d, bus, cfg)

\* _send_string after its last "await clkedge": the wires are released
PkFinish(d, bus, cfg) ==
    [drv |-> [d EXCEPT !.pc = "idle"],
     bus |-> [bus EXCEPT !.valid = "0", !.data = XBits(PkDataBits),
                         !.startofpacket = "x", !.endofpacket = "x",
                         !.empty = IF cfg.useEmpty THEN XBits(PkEmptyBits) ELSE @,
                         !.channel = IF cfg.hasChannel THEN XBits(PkChannelBits) ELSE @]]

\* _send_string up to its first await
PkSendString(d0, string, sync, channel, draw, bus, cfg) ==
    LET d  == [d0 EXCEPT !.string = string, !.firstword = TRUE, !.channel = channel,
                         !.waited = FALSE, !.err = "none"]
        b0 == [bus EXCEPT !.empty = IF cfg.useEmpty THEN IntToBits(0, PkEmptyBits) ELSE @,
                          !.startofpacket = "0", !.endofpacket = "0", !.valid = "0",
                          !.channel = IF cfg.hasChannel THEN IntToBits(0, PkChannelBits) ELSE @]
    IN  IF ~cfg.hasChannel /\ channel # NoChannel
        THEN [drv |-> [d EXCEPT !.pc = "error", !.err = "no_channel_signal"], bus |-> b0]
        ELSE IF string = <<>> THEN [drv |-> [d EXCEPT !.pc = "next"], bus |-> b0]
        ELSE IF sync THEN [drv |-> [d EXCEPT !.pc = "top"], bus |-> b0]
        ELSE PkGapOrDrive(d, draw, b0, cfg)

\* the driver task resumed by a rising edge
PkDriverEdge(d0, draw, bus, cfg) ==
    LET d == [d0 EXCEPT !.waited = TRUE]
    IN  CASE d0.pc = "top"  -> PkGapOrDrive(d, draw, bus, cfg)
          [] d0.pc = "gap"  -> IF d.gap > 1
                               THEN [drv |-> [d EXCEPT !.gap = d.gap - 1], bus |-> bus]
                               ELSE PkDriveWord(NextValids([d EXCEPT !.gap = 0], draw), bus, cfg)
          [] d0.pc = "ready_edge" -> [drv |-> [d EXCEPT !.pc = "ready"], bus |-> bus]
          [] d0.pc = "next" -> IF d.string # <<>>
                               THEN PkGapOrDrive(d, draw, bus, cfg)
                               ELSE PkFinish(d, bus, cfg)
          [] OTHER          -> [drv |-> d0, bus |-> bus]

\* PkWaitReady that goes on whatever ready is
PkWaitReadyBlind(d, ready) ==
    IF d.pc = "ready" THEN [d EXCEPT !.pc = "next"] ELSE d

\* _wait_ready at the read-only phase
PkWaitReady(d, ready) ==
    IF d.pc = "ready"
    THEN [d EXCEPT !.pc = IF ready = "1" THEN "next" ELSE "ready_edge"]
    ELSE d

(***************************************************************************)
(* Packetized streaming bus: wiring, and the record of the traffic.        *)
(***************************************************************************)
\* the wires after the driver's constructor: valid 0, everything else "x"
PkBusInit ==
    [valid |-> "0", ready |-> "1", data |-> XBits(PkDataBits),
     startofpacket |-> "x", endofpacket |-> "x",
     empty |-> XBits(PkEmptyBits), channel |-> XBits(PkChannelBits)]

\* the configurations modelled: 8-bit symbols, several symbols per word (so
\* an empty wire), no error wire; with a channel wire, maxChannel is set
\* below what the wire can carry
PkConfigs ==
    {c \in [hasReady : BOOLEAN, hasChannel : BOOLEAN, reportChannel : BOOLEAN,
            bigEndian : BOOLEAN, throttled : BOOLEAN,
            maxChannel : {0, Pow2(PkChannelBits) - 2},
            invalidTimeout : {0, PkTimeout},
            dataBitsPerSymbol : {8}, useEmpty : {PkDataBits \div 8 > 1}] :
        /\ c.reportChannel => c.hasChannel
        /\ c.maxChannel = (IF c.hasChannel THEN Pow2(PkChannelBits) - 2 ELSE 0)}

\* the record of the traffic, kept from the wires alone while the monitor
\* task runs: whether a packet is open, the cycles since the last accepted
\* word of the open packet, and the first start-of-packet accepted inside an
\* open packet with what had been delivered until then
PkHistInit == [open |-> FALSE, stall |-> 0, dup |-> FALSE, snap |-> <<>>, words |-> <<>>]

PkHistStep(h, bus, cfg, inReset, m) ==
    LET accepted == IF cfg.hasReady THEN bus.valid = "1" /\ bus.ready = "1"
                    ELSE bus.valid = "1"
    IN  IF m.err # "none" THEN h
        ELSE IF inReset THEN [h EXCEPT !.open = FALSE, !.stall = 0]
        ELSE IF accepted
             THEN [h EXCEPT !.open  = bus.endofpacket # "1" /\ (bus.startofpacket = "1" \/ h.open),
                            !.words = Append(IF bus.startofpacket = "1" THEN <<>> ELSE @,
                                             [data |-> bus.data, sop |-> bus.startofpacket,
                                              eop |-> bus.endofpacket, empty |-> bus.empty]),
                            !.stall = 0,
                            !.dup   = @ \/ (h.open /\ bus.startofpacket = "1"),
                            !.snap  = IF ~h.dup /\ h.open /\ bus.startofpacket = "1"
                                      THEN m.delivered ELSE @]
             ELSE IF h.open THEN [h EXCEPT !.stall = @ + 1] ELSE h

PkParked ==
    /\ pk_phase = "drive"
    /\ pk_bus = PkBusInit
    /\ pk_reset = FALSE
    /\ pk_cfg = CHOOSE c \in PkConfigs : ~c.hasReady /\ ~c.hasChannel /\ c.bigEndian
                                         /\ ~c.throttled /\ c.invalidTimeout = 0
    /\ pk_mon = PkMonInit
    /\ pk_hist = PkHistInit
    /\ pk_drv = PkDrvInit
    /\ pk_calls = <<>>

(***************************************************************************)
(* The packetized monitor under arbitrary bus traffic.                     *)
(***************************************************************************)
\* the data words of the traffic: two defined words and one whose last
\* symbol is unknown
PmData ==
    {BytesToBits([k \in 1..PkWordBytes |-> k]),
     BytesToBits([k \in 1..(PkWordBytes - 1) |-> 16 * k]) \o XBits(8)}

\* what the wires can carry in one cycle: a word presented with valid, or
\* an idle cycle with the wires as the driver leaves them.  Of a word
\* presented while ready is low the monitor samples valid and ready only, so
\* it comes with one setting of the other wires
PmTraffic(cfg) ==
    [valid : {"1"},
     ready : {"1"},
     data : PmData,
     startofpacket : {"0", "1"},
     endofpacket : {"0", "1"},
     empty : {IntToBits(e, PkEmptyBits) : e \in {0, 1}},
     channel : IF cfg.hasChannel
               THEN {IntToBits(c, PkChannelBits) : c \in {0, cfg.maxChannel, cfg.maxChannel + 1}}
               ELSE {XBits(PkChannelBits)}]
    \cup {[PkBusInit EXCEPT !.ready = r] : r \in (IF cfg.hasReady THEN {"0", "1"} ELSE {"1"})}
    \cup (IF cfg.hasReady
          THEN {[PkBusInit EXCEPT !.valid = "1", !.ready = "0", !.data = d,
                                  !.startofpacket = "1", !.endofpacket = "1"] : d \in PmData}
          ELSE {})

PmInit ==
    /\ pk_phase = "drive"
    /\ pk_bus = PkBusInit
    /\ pk_reset = FALSE
    /\ pk_cfg \in {c \in PkConfigs : ~c.throttled}
    /\ pk_mon = PkMonInit
    /\ pk_hist = PkHistInit
    /\ pk_drv = PkDrvInit
    /\ pk_calls = <<>>

\* one clock cycle: the wires carry bus, the monitor samples them at the edge
PmCycle(bus, inReset) ==
    /\ Len(pk_mon.delivered) < MaxDelivered
    /\ Len(pk_mon.pkt) < MaxOpenWords * PkWordBytes
    /\ pk_hist.stall <= PkTimeout
    /\ pk_mon' = PkMonitorRecv(pk_mon, bus, pk_cfg, inReset)
    /\ pk_hist' = PkHistStep(pk_hist, bus, pk_cfg, inReset, pk_mon)
    /\ UNCHANGED <<pk_phase, pk_bus, pk_reset, pk_cfg, pk_drv, pk_calls>>

PmNext ==
    \E bus \in PmTraffic(pk_cfg), inReset \in BOOLEAN : PmCycle(bus, inReset) /\ UNCHANGED <<stVars, mmVars, obVars, apVars>>

(***************************************************************************)
(* The packetized monitor with the wires it sampled on record: pk_bus and  *)
(* pk_reset are the wires and in_reset of the cycle sampled last.          *)
(***************************************************************************)
\* symbol k of a word in the order of transmission: from the high-order end
\* when firstSymbolInHighOrderBits, from the low-order end otherwise
PwSymbol(bits, k, bigEndian) ==
    IF bigEndian THEN BitsToInt(SubSeq(bits, 8 * (k - 1) + 1, 8 * k))
    ELSE BitsToInt(SubSeq(bits, Len(bits) - 8 * k + 1, Len(bits) - 8 * (k - 1)))

\* the symbols a word carries: all of them, or all but the last `empty`
\* ones on the word with end-of-packet
PwSymbols(bus, cfg) ==
    LET n == IF bus.endofpacket = "1" /\ cfg.useEmpty
             THEN PkWordBytes - BitsToInt(bus.empty) ELSE PkWordBytes
    IN  [k \in 1..n |-> PwSymbol(bus.data, k, cfg.bigEndian)]

\* valid and ready as the wires carry them
PwAccepted(bus, cfg) == bus.valid = "1" /\ (cfg.hasReady => bus.ready = "1")

\* the record of the traffic, kept from the wires alone: the symbols and the
\* channel of the words accepted since the last start-of-packet, the number
\* of words accepted, whether no word was accepted since the last cycle in
\* reset, and whether the monitor task had ended before the cycle sampled
\* last
PwHistInit ==
    [bytes |-> <<>>, chan |-> NoChannel, n |-> 0, fresh |-> FALSE, dead |-> FALSE]

PwHistStep(h, bus, cfg, inReset, m) ==
    IF m.err # "none" THEN [h EXCEPT !.dead = TRUE]
    ELSE IF inReset THEN [h EXCEPT !.bytes = <<>>, !.chan = NoChannel, !.fresh = TRUE]
    ELSE IF PwAccepted(bus, cfg)
    THEN [h EXCEPT !.bytes = (IF bus.startofpacket = "1" THEN <<>> ELSE @)
                              \o PwSymbols(bus, cfg),
                   !.chan = IF bus.startofpacket = "1" /\ cfg.hasChannel
                            THEN BitsToInt(bus.channel) ELSE @,
                   !.n = @ + 1,
                   !.fresh = FALSE]
    ELSE h

\* what the wires can carry in one cycle: an idle cycle, a word presented
\* while ready is low, a word whose last symbol is unknown, or a defined
\* word with any framing and channel; a word that ends a packet it did not
\* start leaves one symbol empty
PwTraffic(cfg) ==
    {[PkBusInit EXCEPT !.ready = r] : r \in (IF cfg.hasReady THEN {"0", "1"} ELSE {"1"})}
    \cup (IF cfg.hasReady
          THEN {[PkBusInit EXCEPT !.valid = "1", !.ready = "0", !.startofpacket = "1",
                                  !.endofpacket = "1"]}
          ELSE {})
    \cup {[valid |-> "1", ready |-> "1", data |-> d, startofpacket |-> sop,
           endofpacket |-> eop,
           empty |-> IntToBits(IF sop = "0" /\ eop = "1" THEN 1 ELSE 0, PkEmptyBits),
           channel |-> ch] :
             d \in {BytesToBits([k \in 1..PkWordBytes |-> k])},
             sop \in {"0", "1"}, eop \in {"0", "1"},
             ch \in IF cfg.hasChannel
                    THEN {IntToBits(c, PkChannelBits) : c \in {0, cfg.maxChannel, cfg.maxChannel + 1}}
                    ELSE {XBits(PkChannelBits)}}
    \cup {[valid |-> "1", ready |-> "1",
           data |-> BytesToBits([k \in 1..(PkWordBytes - 1) |-> 16 * k]) \o XBits(8),
           startofpacket |-> "1", endofpacket |-> eop,
           empty |-> IntToBits(0, PkEmptyBits),
           channel |-> IF cfg.hasChannel THEN IntToBits(0, PkChannelBits)
                       ELSE XBits(PkChannelBits)] : eop \in {"0", "1"}}

\* the configurations of the monitor: the throttle is the driver's; a ready
\* wire and an invalid-cycle timeout come on the buses without channel wire
PwConfigs ==
    {c \in PkConfigs :
        ~c.throttled /\ (c.hasChannel => ~c.hasReady /\ c.invalidTimeout = 0)}

\* the cycles of the traffic: any wires outside reset; in reset, where the
\* monitor samples no wire, idle wires or a word that is a whole packet
PwCycles(cfg) ==
    {[bus |-> b, inReset |-> FALSE] : b \in PwTraffic(cfg)}
    \cup {[bus |-> b, inReset |-> TRUE] :
            b \in {t \in PwTraffic(cfg) :
                     \/ t.valid = "0" /\ t.ready = "1"
                     \/ /\ PwAccepted(t, cfg) /\ IsResolvable(t.data)
                        /\ t.startofpacket = "1" /\ t.endofpacket = "1"
                        /\ (cfg.hasChannel => BitsToInt(t.channel) = 0)}}

PwInit ==
    /\ pk_phase = "drive"
    /\ pk_bus = PkBusInit
    /\ pk_reset = FALSE
    /\ pk_cfg \in PwConfigs
    /\ pk_mon = PkMonInit
    /\ pk_hist = PwHistInit
    /\ pk_drv = PkDrvInit
    /\ pk_calls = <<>>

\* one clock cycle: the wires carry bus, the monitor samples them at the edge
PwCycle(bus, inReset) ==
    /\ pk_hist.n < MaxAccepted
    /\ pk_mon.invalid_cyclecount <= PkTimeout
    /\ pk_bus' = bus
    /\ pk_reset' = inReset
    /\ pk_mon' = PkMonitorRecv(pk_mon, bus, pk_cfg, inReset)
    /\ pk_hist' = PwHistStep(pk_hist, bus, pk_cfg, inReset, pk_mon)
    /\ UNCHANGED <<pk_phase, pk_cfg, pk_drv, pk_calls>>

PwNext ==
    \E c \in PwCycles(pk_cfg) :
        PwCycle(c.bus, c.inReset) /\ UNCHANGED <<stVars, mmVars, obVars, apVars>>

(***************************************************************************)
(* A word-level and a packetized monitor on the wires of one bus without   *)
(* a channel wire, under traffic of defined words; st_recv is what the     *)
(* word-level monitor delivered.                                           *)
(***************************************************************************)
BmTraffic(cfg) == {b \in PwTraffic(cfg) : PwAccepted(b, cfg) => IsResolvable(b.data)}

BmCycle(bus, inReset) ==
    /\ Len(st_recv) < MaxWords
    /\ PwCycle(bus, inReset)
    /\ st_recv' = StMonitorRecv(st_recv, pk_cfg.hasReady, pk_cfg.bigEndian,
                                bus.valid, bus.ready, bus.data)
    /\ UNCHANGED <<st_phase, st_valid, st_data, st_ready, st_cfg, st_drv, st_sent, st_hist>>

BmNext ==
    \E c \in {k \in PwCycles(pk_cfg) : k.bus \in BmTraffic(pk_cfg)} :
        BmCycle(c.bus, c.inReset) /\ UNCHANGED <<mmVars, obVars, apVars>>

(***************************************************************************)
(* The packetized driver and monitor on one bus.                           *)
(***************************************************************************)
\* the payloads sent: byte i of a payload is i
PkLengths == {0, 1, PkWordBytes, 2 * PkWordBytes + 3}

PkPayloads == {[i \in 1..n |-> i] : n \in PkLengths}

\* the channel arguments: None, the ends of the range, and values outside it
PkChannels(cfg) == {NoChannel, 0, cfg.maxChannel, cfg.maxChannel + 1, -2}

\* the throttle counters as construction or an earlier send left them
PkThrottles(throttled) ==
    IF throttled
    THEN [onTrue : {FALSE}, on : 0..MaxOn, off : 0..MaxOff]
         \cup {[onTrue |-> TRUE, on |-> 0, off |-> 0]}
    ELSE {[onTrue |-> TRUE, on |-> 0, off |-> 0]}

PkInit ==
    /\ pk_phase = "drive"
    /\ pk_reset = FALSE
    /\ pk_cfg \in PkConfigs
    /\ pk_bus \in {[PkBusInit EXCEPT !.ready = r] :
                      r \in (IF pk_cfg.hasReady THEN {"0", "1"} ELSE {"1"})}
    /\ pk_mon = PkMonInit
    /\ pk_hist = PkHistInit
    /\ \E t \in PkThrottles(pk_cfg.throttled) :
          pk_drv = [PkDrvInit EXCEPT !.onTrue = t.onTrue, !.on = t.on, !.off = t.off]
    /\ pk_calls = <<>>

\* a caller awaits _send_string(string, sync, channel); one call is followed
\* to its end
PkSend(string, sync, channel) ==
    /\ pk_drv.pc = "idle"
    /\ pk_calls = <<>>
    /\ pk_calls' = Append(pk_calls, [string |-> string, sync |-> sync, channel |-> channel])
    /\ \E draw \in Draws(pk_cfg.throttled) :
          LET r == PkSendString(pk_drv, string, sync, channel, draw, pk_bus, pk_cfg)
          IN  /\ pk_drv' = r.drv
              /\ pk_bus' = r.bus
    /\ UNCHANGED <<pk_phase, pk_reset, pk_cfg, pk_mon, pk_hist>>

\* one clock cycle: the read-only phase, in which the driver samples ready,
\* then the rising edge, at which the monitor samples the settled wires, the
\* driver resumes, and the sink drives ready for the new cycle; a stall inside
\* a packet is followed for PkTimeout + 1 cycles
PkCycleWires ==
    /\ pk_hist.stall <= PkTimeout
    /\ pk_mon' = PkMonitorRecv(pk_mon, pk_bus, pk_cfg, pk_reset)
    /\ pk_hist' = PkHistStep(pk_hist, pk_bus, pk_cfg, pk_reset, pk_mon)
    /\ \E draw \in Draws(pk_cfg.throttled),
          rdy \in (IF pk_cfg.hasReady THEN {"0", "1"} ELSE {"1"}) :
          LET r == PkDriverEdge(PkWaitReady(pk_drv, pk_bus.ready), draw, pk_bus, pk_cfg)
          IN  /\ pk_drv' = r.drv
              /\ pk_bus' = [r.bus EXCEPT !.ready = rdy]
    /\ UNCHANGED <<pk_reset, pk_cfg, pk_calls>>

PkCycle == PkCycleWires /\ UNCHANGED pk_phase

PkNext ==
    \/ \E string \in PkPayloads, sync \in BOOLEAN, channel \in PkChannels(pk_cfg) :
          PkSend(string, sync, channel) /\ UNCHANGED <<stVars, mmVars, obVars, apVars>>
    \/ PkCycle /\ UNCHANGED <<stVars, mmVars, obVars, apVars>>

(***************************************************************************)
(* The packetized driver sending payloads of one word or less, of whole    *)
(* words and of whole words and a rest, to a sink that never times out.    *)
(***************************************************************************)
PdLengths == {1, PkWordBytes - 1, PkWordBytes, PkWordBytes + 1, 2 * PkWordBytes}

PdPayloads == {[i \in 1..n |-> i] : n \in PdLengths}

PdInit ==
    /\ PkInit
    /\ pk_cfg.invalidTimeout = 0
    /\ pk_cfg.hasChannel => pk_cfg.reportChannel

PdNext ==
    \/ \E string \in PdPayloads, sync \in BOOLEAN,
          channel \in {NoChannel} \cup (IF pk_cfg.hasChannel THEN {pk_cfg.maxChannel} ELSE {}) :
          PkSend(string, sync, channel) /\ UNCHANGED <<stVars, mmVars, obVars, apVars>>
    \/ PkCycle /\ UNCHANGED <<stVars, mmVars, obVars, apVars>>

(***************************************************************************)
(* AvalonMemory: the non-burst responder.                                  *)
(***************************************************************************)
MmDataBits == 8 * MmDataBytes


\* the entries of _responses: None, True ("unknown"), or a value
RespNone == [kind |-> "none", value |-> 0]
RespUnknown == [kind |-> "unknown", value |-> 0]
RespValue(v) == [kind |-> "value", value |-> v]

RECURSIVE Pad(_, _)
\* _pad, for the latency l drawn: "while len(self._responses) < l: append(None)"
Pad(responses, l) ==
    IF Len(responses) < l THEN Pad(Append(responses, RespNone), l) ELSE responses

\* DoResponse that drives zeroes for an "unknown" response
DoResponseZero(m, bus, cfg) ==
    LET resp == IF m.responses # <<>> THEN m.responses[1] ELSE RespNone
        m1   == [m EXCEPT !.responses = IF @ # <<>> THEN Tail(@) ELSE @]
    IN  IF resp.kind # "none"
        THEN [mem |-> m1,
              bus |-> [bus EXCEPT
                         !.readdata = IF resp.kind = "unknown" THEN ZeroBits(MmDataBits)
                                      ELSE IntToBits(resp.value, MmDataBits),
                         !.readdatavalid = IF cfg.hasReadDataValid THEN "1" ELSE @]]
        ELSE [mem |-> m1,
              bus |-> [bus EXCEPT !.readdatavalid = IF cfg.hasReadDataValid THEN "0" ELSE @]]

\* _do_response: the head of the queue is driven on readdata
DoResponse(m, bus, cfg) ==
    LET resp == IF m.responses # <<>> THEN m.responses[1] ELSE RespNone
        m1   == [m EXCEPT !.responses = IF @ # <<>> THEN Tail(@) ELSE @]
    IN  IF resp.kind # "none"
        THEN [mem |-> m1,
              bus |-> [bus EXCEPT
                         !.readdata = IF resp.kind = "unknown" THEN XBits(MmDataBits)
                                      ELSE IntToBits(resp.value, MmDataBits),
                         !.readdatavalid = IF cfg.hasReadDataValid THEN "1" ELSE @]]
        ELSE [mem |-> m1,
              bus |-> [bus EXCEPT !.readdatavalid = IF cfg.hasReadDataValid THEN "0" ELSE @]]

\* RespondRead that appends the response without _pad
RespondReadUnpadded(m, bus, l) ==
    IF ~IsResolvable(bus.address) THEN [m EXCEPT !.pc = "failed", !.err = "ValueError"]
    ELSE LET addr == BitsToInt(bus.address)
         IN  IF addr \notin DOMAIN m.mem
             THEN [m EXCEPT !.responses = Append(@, RespUnknown),
                            !.diag = @ \cup {"uninitialized"}]
             ELSE [m EXCEPT !.responses = Append(@, RespValue(m.mem[addr]))]

\* the queue q, padded up to l entries, with the response r put in after its
\* first l entries
InsertAt(q, l, r) ==
    SubSeq(Pad(q, l), 1, l) \o <<r>> \o SubSeq(Pad(q, l), l + 1, Len(Pad(q, l)))

\* RespondRead whose response goes l entries from the head of the queue,
\* ahead of what is queued behind
RespondReadAtLatency(m, bus, l) ==
    IF ~IsResolvable(bus.address) THEN [m EXCEPT !.pc = "failed", !.err = "ValueError"]
    ELSE LET addr == BitsToInt(bus.address)
         IN  IF addr \notin DOMAIN m.mem
             THEN [m EXCEPT !.responses = InsertAt(@, l, RespUnknown),
                            !.diag = @ \cup {"uninitialized"}]
             ELSE [m EXCEPT !.responses = InsertAt(@, l, RespValue(m.mem[addr]))]

\* _respond, "if self._readable and self.bus.read.value:", not self._burstread
RespondRead(m, bus, l) ==
    IF ~IsResolvable(bus.address) THEN [m EXCEPT !.pc = "failed", !.err = "ValueError"]
    ELSE LET addr == BitsToInt(bus.address)
         IN  IF addr \notin DOMAIN m.mem
             THEN [m EXCEPT !.responses = Append(Pad(@, l), RespUnknown),
                            !.diag = @ \cup {"uninitialized"}]
             ELSE [m EXCEPT !.responses = Append(Pad(@, l), RespValue(m.mem[addr]))]

RECURSIVE LaneMask(_, _, _)
\* the mask built by "for i in range(self._width//8)": 0xFF << (8*i) for every
\* lane i < n whose bit of byteenable is `want`
LaneMask(byteenable, n, want) ==
    IF n = 0 THEN 0
    ELSE LaneMask(byteenable, n - 1, want)
         + (IF ((byteenable \div Pow2(n - 1)) % 2 = 1) = want THEN 255 * Pow2(8 * (n - 1)) ELSE 0)

RECURSIVE BitAnd(_, _)
\* x & y
BitAnd(x, y) ==
    IF x = 0 \/ y = 0 THEN 0
    ELSE 2 * BitAnd(x \div 2, y \div 2) + (IF x % 2 = 1 /\ y % 2 = 1 THEN 1 ELSE 0)

\* RespondWrite that takes every lane from the new data
RespondWriteAllLanes(m, bus, cfg) ==
    IF ~IsResolvable(bus.address) \/ ~IsResolvable(bus.writedata) \/ ~IsResolvable(bus.byteenable)
    THEN [m EXCEPT !.pc = "failed", !.err = "ValueError"]
    ELSE [m EXCEPT !.mem = [a \in (DOMAIN @) \cup {BitsToInt(bus.address)} |->
                               IF a = BitsToInt(bus.address) THEN BitsToInt(bus.writedata)
                               ELSE @[a]]]

\* _respond, "if self._writeable and self.bus.write.value:", not self._burstwrite.
\* data & mask and olddata & oldmask have no bit in common, so "|" is "+"
RespondWrite(m, bus, cfg) ==
    IF ~IsResolvable(bus.address) \/ ~IsResolvable(bus.writedata)
       \/ (cfg.hasByteEnable /\ ~IsResolvable(bus.byteenable))
    THEN [m EXCEPT !.pc = "failed", !.err = "ValueError"]
    ELSE LET addr    == BitsToInt(bus.address)
             data    == BitsToInt(bus.writedata)
             be      == BitsToInt(bus.byteenable)
             olddata == IF addr \in DOMAIN m.mem THEN m.mem[addr] ELSE 0
             mask    == LaneMask(be, MmDataBits \div 8, TRUE)
             oldmask == LaneMask(be, MmDataBits \div 8, FALSE)
             merged  == IF cfg.hasByteEnable
                        THEN BitAnd(data, mask) + BitAnd(olddata, oldmask)
                        ELSE data
         IN  [m EXCEPT !.mem = [a \in (DOMAIN @) \cup {addr} |->
                                   IF a = addr THEN merged ELSE @[a]]]

\* the draw of _waitrequest that takes the branch without stall cycles
NoStall == -1

\* int("1" * len(self.bus.byteenable), 2), as bits
FullByteEnable == [i \in 1..MmDataBytes |-> "1"]

\* "for i in range(self.dataByteSize)" of _writing_byte_value: the store with
\* the bytes 0 .. n-1 of data at byteaddr .. byteaddr+n-1
RECURSIVE StoreBytes(_, _, _, _)
StoreBytes(mem, byteaddr, data, n) ==
    IF n = 0 THEN mem
    ELSE LET done == StoreBytes(mem, byteaddr, data, n - 1)
             at   == byteaddr + n - 1
         IN  [a \in (DOMAIN done) \cup {at} |->
                 IF a = at THEN (data \div Pow2(8 * (n - 1))) % 256 ELSE done[a]]

RECURSIVE LoadBytes(_, _, _)
\* "value += rvalue << i*8" over the bytes 0 .. n-1 at byteaddr
LoadBytes(mem, byteaddr, n) ==
    IF n = 0 THEN 0
    ELSE LoadBytes(mem, byteaddr, n - 1) + mem[byteaddr + n - 1] * Pow2(8 * (n - 1))

\* the diagnostics of a burst request: they are logged, the request goes on
BurstDiag(addr, bus) ==
    (IF addr % MmDataBytes # 0 THEN {"unaligned"} ELSE {})
    \cup (IF bus.byteenable # FullByteEnable THEN {"byteenable"} ELSE {})
    \cup (IF BitsToInt(bus.burstcount) = 0 THEN {"burstcount"} ELSE {})

\* the burst parameters cannot be converted to integers
BurstUnresolved(bus) ==
    ~IsResolvable(bus.address) \/ ~IsResolvable(bus.burstcount)
    \/ ~IsResolvable(bus.byteenable)

\* the task back at "await edge" at the top of _respond; the locals of the
\* request it served are dead
MemRest(m) ==
    [m EXCEPT !.pc = "edge", !.stage = "init", !.stall = 0, !.lat = 0, !.count = 0,
              !.addr = 0, !.burstcount = 0]

\* the word loop of a burst write, "for count in range(burstcount)", at word
\* m.count; past the last word wait-request goes back up and the task is
\* back at "await edge"
BurstWriteWord(m, bus, cfg, phase) ==
    IF m.count >= m.burstcount
    THEN [mem |-> MemRest(m),
          bus |-> [bus EXCEPT !.waitrequest = IF cfg.writeBurstWaitReq THEN "1" ELSE @]]
    ELSE IF bus.write # "1"
    THEN [mem |-> [m EXCEPT !.pc = "bw_while"], bus |-> bus]
    ELSE IF phase # "mid"
    THEN [mem |-> [m EXCEPT !.pc = "bw_fall"], bus |-> bus]
    ELSE IF ~IsResolvable(bus.writedata)
    THEN [mem |-> [m EXCEPT !.pc = "failed", !.err = "ValueError"], bus |-> bus]
    ELSE [mem |-> [m EXCEPT !.pc = "bw_edge",
                            !.mem = StoreBytes(@, m.addr + m.count * MmDataBytes,
                                               BitsToInt(bus.writedata), MmDataBytes)],
          bus |-> bus]

\* a burst write after a call of _waitrequest returned: _write_burst_addr
\* after the first call, the next word after the others
AfterWaitRequest(m, bus, cfg, phase) ==
    IF m.stage = "word"
    THEN BurstWriteWord([m EXCEPT !.count = @ + 1], bus, cfg, phase)
    ELSE IF BurstUnresolved(bus)
    THEN [mem |-> [m EXCEPT !.pc = "failed", !.err = "ValueError"], bus |-> bus]
    ELSE BurstWriteWord([m EXCEPT !.stage = "word", !.count = 0,
                                  !.addr = BitsToInt(bus.address),
                                  !.burstcount = BitsToInt(bus.burstcount),
                                  !.diag = @ \cup BurstDiag(BitsToInt(bus.address), bus)],
                        bus, cfg, phase)

\* _waitrequest: draw is NoStall when random.choice gave False, and else the
\* number of stall cycles random.randint gave.  A wire written while the
\* simulator is in its read-only phase is refused and ends the task
WaitRequest(m, bus, cfg, draw, phase) ==
    IF ~cfg.writeBurstWaitReq THEN AfterWaitRequest(m, bus, cfg, phase)
    ELSE IF draw = NoStall THEN [mem |-> [m EXCEPT !.pc = "bw_nts"], bus |-> bus]
    ELSE IF phase = "ro"
    THEN [mem |-> [m EXCEPT !.pc = "failed", !.err = "readonly_write"], bus |-> bus]
    ELSE IF draw = 0 THEN AfterWaitRequest(m, [bus EXCEPT !.waitrequest = "0"], cfg, phase)
    ELSE [mem |-> [m EXCEPT !.pc = "bw_stall", !.stall = draw],
          bus |-> [bus EXCEPT !.waitrequest = "1"]]

\* _respond, "if self._writeable and self.bus.write.value:"
RespondWriteStrobe(m, bus, cfg, draw, phase) ==
    IF ~(cfg.canWrite /\ bus.write = "1") THEN [mem |-> MemRest(m), bus |-> bus]
    ELSE IF ~cfg.hasBurstCount
    THEN [mem |-> [RespondWrite(m, bus, cfg) EXCEPT !.pc = IF @ = "failed" THEN @ ELSE "edge"],
          bus |-> bus]
    ELSE WaitRequest([m EXCEPT !.stage = "init"], bus, cfg, draw, phase)

\* the word loop of a burst read, "for count in range(burstcount)", at word
\* m.count: the word is queued and the task awaits the edge that drives it
BurstReadWord(m, bus, cfg, draw) ==
    LET byteaddr == (m.addr + m.count) * MmDataBytes
    IN  IF m.count >= m.burstcount
        THEN RespondWriteStrobe(m, bus, cfg, draw, "drive")
        ELSE IF byteaddr \notin DOMAIN m.mem
        THEN [mem |-> [m EXCEPT !.pc = "br_word",
                                !.responses = Append(@, RespUnknown),
                                !.diag = @ \cup {"uninitialized"}],
              bus |-> bus]
        ELSE IF \E i \in 0..(MmDataBytes - 1) : byteaddr + i \notin DOMAIN m.mem
        THEN [mem |-> [m EXCEPT !.pc = "failed", !.err = "KeyError"], bus |-> bus]
        ELSE [mem |-> [m EXCEPT !.pc = "br_word",
                                !.responses = Append(@, RespValue(LoadBytes(m.mem, byteaddr,
                                                                            MmDataBytes)))],
              bus |-> bus]

\* _respond, "if self._readable and self.bus.read.value:" with self._burstread
BurstReadStart(m, bus, cfg) ==
    IF BurstUnresolved(bus)
    THEN [m EXCEPT !.pc = "failed", !.err = "ValueError"]
    ELSE [m EXCEPT !.pc = "br_nts",
                   !.addr = BitsToInt(bus.address) \div MmDataBytes,
                   !.burstcount = BitsToInt(bus.burstcount),
                   !.count = 0,
                   !.diag = @ \cup BurstDiag(BitsToInt(bus.address), bus)]

\* the responder task resumed at the read-only phase
MemReadOnly(m, bus, cfg, l, draw) ==
    IF m.pc # "ro" THEN [mem |-> m, bus |-> bus]
    ELSE IF cfg.canRead /\ bus.read = "1" /\ cfg.hasBurstCount
    THEN [mem |-> BurstReadStart(m, bus, cfg), bus |-> bus]
    ELSE LET m1 == IF cfg.canRead /\ bus.read = "1" THEN RespondRead(m, bus, l) ELSE m
         IN  IF m1.err # "none" THEN [mem |-> m1, bus |-> bus]
             ELSE RespondWriteStrobe(m1, bus, cfg, draw, "ro")

\* the responder task resumed by a rising edge; the wires of the other side
\* still carry what it drove before the edge
MemEdge(m, bus, cfg, draw) ==
    CASE m.pc = "edge" ->
            LET r == DoResponse(m, bus, cfg)
            IN  [mem |-> [r.mem EXCEPT !.pc = "ro"], bus |-> r.bus]
      [] m.pc = "br_e1" -> [mem |-> [m EXCEPT !.pc = "br_e2"], bus |-> bus]
      [] m.pc = "br_e2" ->
            IF cfg.readLatency > 0
            THEN [mem |-> [m EXCEPT !.pc = "br_lat", !.lat = cfg.readLatency],
                  bus |-> [bus EXCEPT !.waitrequest = "0"]]
            ELSE BurstReadWord(m, [bus EXCEPT !.waitrequest = "0"], cfg, draw)
      [] m.pc = "br_lat" ->
            IF m.lat > 1 THEN [mem |-> [m EXCEPT !.lat = @ - 1], bus |-> bus]
            ELSE BurstReadWord([m EXCEPT !.lat = 0], bus, cfg, draw)
      [] m.pc = "br_word" ->
            LET r == DoResponse(m, bus, cfg)
            IN  BurstReadWord([r.mem EXCEPT !.count = @ + 1], r.bus, cfg, draw)
      [] m.pc = "bw_stall" ->
            IF m.stall > 1
            THEN [mem |-> [m EXCEPT !.stall = @ - 1], bus |-> [bus EXCEPT !.waitrequest = "1"]]
            ELSE AfterWaitRequest([m EXCEPT !.stall = 0], [bus EXCEPT !.waitrequest = "0"],
                                  cfg, "drive")
      [] m.pc = "bw_edge" -> WaitRequest(m, bus, cfg, draw, "drive")
      [] OTHER -> [mem |-> m, bus |-> bus]

\* the responder task resumed at the time step of the falling edge
MemMid(m, bus, cfg) ==
    CASE m.pc = "br_nts" ->
            [mem |-> [m EXCEPT !.pc = "br_e1"], bus |-> [bus EXCEPT !.waitrequest = "1"]]
      [] m.pc = "bw_nts" -> AfterWaitRequest(m, [bus EXCEPT !.waitrequest = "0"], cfg, "mid")
      [] m.pc \in {"bw_while", "bw_fall"} -> BurstWriteWord(m, bus, cfg, "mid")
      [] OTHER -> [mem |-> m, bus |-> bus]

\* the responder after construction, on an empty store: its task is at the
\* first "await edge"
MemInit ==
    [mem |-> <<>>, responses |-> <<>>, err |-> "none", diag |-> {}, pc |-> "edge",
     stage |-> "init", stall |-> 0, lat |-> 0, count |-> 0, addr |-> 0, burstcount |-> 0]

(***************************************************************************)
(* AvalonMaster.                                                           *)
(***************************************************************************)
\* the wires after the constructors of master and responder
MmBusInit ==
    [address |-> XBits(MmAddrBits), read |-> "0", write |-> "0",
     writedata |-> XBits(MmDataBits), readdata |-> XBits(MmDataBits),
     readdatavalid |-> "0", byteenable |-> ZeroBits(MmDataBytes), waitrequest |-> "0",
     burstcount |-> XBits(MmBurstBits)]

\* the wires of a bus with the given properties: a responder with a burstcount
\* wire and WriteBurstWaitReq starts with wait-request up
MmBusOf(cfg) ==
    [MmBusInit EXCEPT !.waitrequest = IF cfg.hasBurstCount /\ cfg.writeBurstWaitReq
                                      THEN "1" ELSE "0"]

\* a caller that is in no call
CallIdle ==
    [pc |-> "idle", op |-> "none", addr |-> 0, value |-> 0, sync |-> TRUE,
     ret |-> <<>>, err |-> "none"]

\* read: "Apply values for next clock edge"
MasterReadDrive(c, bus, cfg) ==
    [call |-> [c EXCEPT !.pc = IF cfg.hasWaitRequest THEN "r_wait" ELSE "r_e2"],
     bus  |-> [bus EXCEPT !.address = IntToBits(c.addr, MmAddrBits), !.read = "1",
                          !.byteenable = IF cfg.hasByteEnable THEN FullByteEnable ELSE @],
     release |-> FALSE]

\* read: "Deassert read"
MasterReadDeassert(c, bus, cfg) ==
    [call |-> [c EXCEPT !.pc = "r_sample"],
     bus  |-> [bus EXCEPT !.read = "0", !.address = XBits(MmAddrBits),
                          !.byteenable = IF cfg.hasByteEnable THEN ZeroBits(MmDataBytes) ELSE @],
     release |-> FALSE]

\* MasterReadSample that takes readdata without looking at readdatavalid
MasterReadSampleAtOnce(c, bus, cfg) ==
    [call |-> [c EXCEPT !.pc = "done", !.ret = bus.readdata], bus |-> bus, release |-> TRUE]

\* read: readdatavalid is polled at the read-only phase, or readdata is taken
\* at once; "Get the data", _release_lock
MasterReadSample(c, bus, cfg) ==
    IF cfg.hasReadDataValid /\ bus.readdatavalid # "1"
    THEN [call |-> [c EXCEPT !.pc = "r_poll"], bus |-> bus, release |-> FALSE]
    ELSE [call |-> [c EXCEPT !.pc = "done", !.ret = bus.readdata], bus |-> bus, release |-> TRUE]

\* MasterWriteDrive that gives the lock back as soon as the strobe is up
MasterWriteDriveUnlocked(c, bus, cfg) ==
    [call |-> [c EXCEPT !.pc = IF cfg.hasWaitRequest THEN "w_wait" ELSE "w_e2"],
     bus  |-> [bus EXCEPT !.address = IntToBits(c.addr, MmAddrBits),
                          !.writedata = IntToBits(c.value, MmDataBits), !.write = "1",
                          !.byteenable = IF cfg.hasByteEnable THEN FullByteEnable ELSE @],
     release |-> TRUE]

\* write: "Apply values to bus"
MasterWriteDrive(c, bus, cfg) ==
    [call |-> [c EXCEPT !.pc = IF cfg.hasWaitRequest THEN "w_wait" ELSE "w_e2"],
     bus  |-> [bus EXCEPT !.address = IntToBits(c.addr, MmAddrBits),
                          !.writedata = IntToBits(c.value, MmDataBits), !.write = "1",
                          !.byteenable = IF cfg.hasByteEnable THEN FullByteEnable ELSE @],
     release |-> FALSE]

\* write: "Deassert write", _release_lock
MasterWriteDeassert(c, bus, cfg) ==
    [call |-> [c EXCEPT !.pc = "done"],
     bus  |-> [bus EXCEPT !.write = "0", !.address = XBits(MmAddrBits),
                          !.writedata = XBits(MmDataBits),
                          !.byteenable = IF cfg.hasByteEnable THEN ZeroBits(MmDataBytes) ELSE @],
     release |-> TRUE]

\* BusDriver._wait_for_nsignal(waitrequest) at the read-only phase: the call
\* goes on to its next clock edge once the wire is low
WaitForNSignal(c, bus) ==
    IF bus.waitrequest = "0"
    THEN [c EXCEPT !.pc = IF c.pc = "r_wait" THEN "r_e2" ELSE "w_e2"]
    ELSE c

\* a call resumed by a rising edge
MasterEdge(c, bus, cfg) ==
    CASE c.pc = "r_e1"   -> MasterReadDrive(c, bus, cfg)
      [] c.pc = "r_e2"   -> MasterReadDeassert(c, bus, cfg)
      [] c.pc = "r_poll" -> [call |-> [c EXCEPT !.pc = "r_sample"], bus |-> bus, release |-> FALSE]
      [] c.pc = "w_e1"   -> MasterWriteDrive(c, bus, cfg)
      [] c.pc = "w_e2"   -> MasterWriteDeassert(c, bus, cfg)
      [] OTHER           -> [call |-> c, bus |-> bus, release |-> FALSE]

\* a call resumed at the read-only phase
MasterReadOnly(c, bus, cfg) ==
    CASE c.pc \in {"r_wait", "w_wait"} -> [call |-> WaitForNSignal(c, bus), bus |-> bus,
                                           release |-> FALSE]
      [] c.pc = "r_sample"             -> MasterReadSample(c, bus, cfg)
      [] OTHER                         -> [call |-> c, bus |-> bus, release |-> FALSE]

\* BusDriver._acquire_lock: the caller goes on when nobody holds the lock and
\* blocks otherwise
AcquireLock(busy) == [granted |-> ~busy, busy |-> TRUE]

\* BusDriver._release_lock
ReleaseLock(busy) == FALSE

\* a call that holds the lock runs to its first await
MasterStart(c, bus, cfg, phase) ==
    IF c.op = "write"
    THEN [call |-> [c EXCEPT !.pc = "w_e1"], bus |-> bus, release |-> FALSE]
    ELSE IF c.sync
    THEN [call |-> [c EXCEPT !.pc = "r_e1"], bus |-> bus, release |-> FALSE]
    ELSE IF phase = "ro"
    THEN [call |-> [c EXCEPT !.pc = "failed", !.err = "readonly_write"], bus |-> bus,
          release |-> FALSE]
    ELSE MasterReadDrive(c, bus, cfg)

(***************************************************************************)
(* Master and non-burst responder on one bus.                              *)
(***************************************************************************)
RECURSIVE WordOf(_, _)
\* the word whose byte lanes 0 .. n-1 hold base+1 .. base+n
WordOf(base, n) ==
    IF n = 0 THEN 0 ELSE WordOf(base, n - 1) + (base + n) * Pow2(8 * (n - 1))

MmWords == {WordOf(0, MmDataBytes), WordOf(160, MmDataBytes)}

MmAddrs == {0, 1}

\* the wirings of the bus and the latency range of the responder
MmConfigs ==
    {c \in [hasReadDataValid : BOOLEAN, hasWaitRequest : BOOLEAN, hasByteEnable : BOOLEAN,
            canRead : BOOLEAN, canWrite : BOOLEAN,
            latMin : 0..MaxLatency, latMax : 0..MaxLatency,
            hasBurstCount : {FALSE}, writeBurstWaitReq : {TRUE}, maxWaitReqLen : {0},
            readLatency : {1}] :
        /\ <<c.latMin, c.latMax>> \in {<<0, 0>>, <<1, 1>>, <<0, MaxLatency>>}
        /\ c.canRead \/ c.canWrite
        /\ ~(c.canRead /\ c.canWrite) =>
              c.hasReadDataValid /\ ~c.hasWaitRequest /\ ~c.hasByteEnable /\ c.latMin = c.latMax}

\* a bus master that drives nothing
DutIdle == [pc |-> "idle", addr |-> 0, words |-> <<>>, idx |-> 0, n |-> 0, got |-> 0]

MmHistInit ==
    [log |-> <<>>, written |-> <<>>, calls |-> 0,
     store |-> <<>>, pending |-> <<>>]

\* the observer before it saw a request
ObIdle == [since |-> -1, n |-> 0, words |-> <<>>]

ObParked == mm_obs = ObIdle

MmParked ==
    /\ mm_phase = "drive"
    /\ mm_bus = MmBusInit
    /\ mm_cfg = CHOOSE c \in MmConfigs : c.canRead /\ c.canWrite /\ c.hasReadDataValid
                                         /\ ~c.hasWaitRequest /\ ~c.hasByteEnable
                                         /\ c.latMin = 1 /\ c.latMax = 1
    /\ mm_busy = FALSE
    /\ mm_call = [k \in 1..MmCallers |-> CallIdle]
    /\ mm_mem = MemInit
    /\ mm_dut = DutIdle
    /\ mm_hist = MmHistInit

MmInit ==
    /\ mm_phase = "drive"
    /\ mm_bus = MmBusInit
    /\ mm_cfg \in MmConfigs
    /\ mm_busy = FALSE
    /\ mm_call = [k \in 1..MmCallers |-> CallIdle]
    /\ mm_mem = MemInit
    /\ mm_dut = DutIdle
    /\ mm_hist = MmHistInit

RECURSIVE MasterRun(_, _, _, _)
\* the calls of callers 1 .. k resumed by the rising edge (phase "drive") or
\* at the read-only phase (phase "ro")
MasterRun(k, st, cfg, phase) ==
    IF k = 0 THEN st
    ELSE LET s == MasterRun(k - 1, st, cfg, phase)
             r == IF phase = "drive" THEN MasterEdge(s.calls[k], s.bus, cfg)
                  ELSE MasterReadOnly(s.calls[k], s.bus, cfg)
         IN  [calls |-> [s.calls EXCEPT ![k] = r.call], bus |-> r.bus,
              busy |-> IF r.release THEN ReleaseLock(s.busy) ELSE s.busy]

RECURSIVE Retire(_, _, _)
\* the calls of callers 1 .. k that returned leave the log of the last call
\* returned, with what the master had last written to its address
Retire(k, calls, hist) ==
    IF k = 0 THEN [calls |-> calls, hist |-> hist]
    ELSE LET s == Retire(k - 1, calls, hist)
             c == s.calls[k]
             known == c.addr \in DOMAIN s.hist.written
         IN  IF c.pc # "done" THEN s
             ELSE [calls |-> [s.calls EXCEPT ![k] = CallIdle],
                   hist  |-> [s.hist EXCEPT
                     !.log = <<[caller |-> k, op |-> c.op, addr |-> c.addr,
                                value |-> c.value, ret |-> c.ret, known |-> known,
                                expect |-> IF known THEN s.hist.written[c.addr] ELSE 0]>>,
                     !.written = IF c.op = "write"
                                 THEN [a \in (DOMAIN @) \cup {c.addr} |->
                                          IF a = c.addr THEN c.value ELSE @[a]]
                                 ELSE @]]

\* the callers blocked in _acquire_lock
Waiters(calls) == {k \in 1..MmCallers : calls[k].pc = "lock"}

\* BusDriver._release_lock, _acquire_lock: when the lock came free, one of the
\* callers blocked on it takes it and runs on
MmHandOver(st, phase) ==
    LET r == Retire(MmCallers, st.calls, mm_hist)
    IN  /\ mm_hist' = r.hist
        /\ IF st.busy \/ Waiters(r.calls) = {}
           THEN /\ mm_call' = r.calls
                /\ mm_bus' = st.bus
                /\ mm_busy' = st.busy
           ELSE \E w \in Waiters(r.calls) :
                  LET n == MasterStart(r.calls[w], st.bus, mm_cfg, phase)
                  IN  /\ mm_call' = [r.calls EXCEPT ![w] = n.call]
                      /\ mm_bus' = n.bus
                      /\ mm_busy' = AcquireLock(st.busy).busy

\* MmCall without the test of _can_read and _can_write
MmCallUnchecked(k, op, addr, value, sync) ==
    /\ mm_call[k].pc = "idle"
    /\ mm_hist.calls < MaxCalls
    /\ LET c == [CallIdle EXCEPT !.op = op, !.addr = addr, !.value = value, !.sync = sync]
       IN  IF ~AcquireLock(mm_busy).granted
           THEN /\ mm_call' = [mm_call EXCEPT ![k] = [c EXCEPT !.pc = "lock"]]
                /\ UNCHANGED <<mm_bus, mm_busy>>
           ELSE LET n == MasterStart(c, mm_bus, mm_cfg, mm_phase)
                IN  /\ mm_call' = [mm_call EXCEPT ![k] = n.call]
                    /\ mm_bus' = n.bus
                    /\ mm_busy' = AcquireLock(mm_busy).busy
    /\ mm_hist' = [mm_hist EXCEPT !.calls = @ + 1]
    /\ UNCHANGED <<mm_phase, mm_cfg, mm_mem, mm_dut>>

\* read(address, sync) or write(address, value) called by caller k
MmCall(k, op, addr, value, sync) ==
    /\ mm_call[k].pc = "idle"
    /\ mm_hist.calls < MaxCalls
    /\ LET c == [CallIdle EXCEPT !.op = op, !.addr = addr, !.value = value, !.sync = sync]
       IN  IF (op = "read" /\ ~mm_cfg.canRead) \/ (op = "write" /\ ~mm_cfg.canWrite)
           THEN /\ mm_call' = [mm_call EXCEPT ![k] = [c EXCEPT !.pc = "failed", !.err = "TestError"]]
                /\ UNCHANGED <<mm_bus, mm_busy>>
           ELSE IF ~AcquireLock(mm_busy).granted
           THEN /\ mm_call' = [mm_call EXCEPT ![k] = [c EXCEPT !.pc = "lock"]]
                /\ UNCHANGED <<mm_bus, mm_busy>>
           ELSE LET n == MasterStart(c, mm_bus, mm_cfg, mm_phase)
                IN  /\ mm_call' = [mm_call EXCEPT ![k] = n.call]
                    /\ mm_bus' = n.bus
                    /\ mm_busy' = AcquireLock(mm_busy).busy
    /\ mm_hist' = [mm_hist EXCEPT !.calls = @ + 1]
    /\ UNCHANGED <<mm_phase, mm_cfg, mm_mem, mm_dut>>

\* the read-only phase of a cycle: the responder inspects the strobes, the
\* master looks at waitrequest, readdatavalid and readdata
MmReadOnly ==
    /\ mm_phase = "drive"
    /\ mm_phase' = "ro"
    /\ \E l \in mm_cfg.latMin..mm_cfg.latMax :
          mm_mem' = MemReadOnly(mm_mem, mm_bus, mm_cfg, l, NoStall).mem
    /\ MmHandOver(MasterRun(MmCallers, [calls |-> mm_call, bus |-> mm_bus, busy |-> mm_busy],
                            mm_cfg, "ro"), "ro")
    /\ UNCHANGED <<mm_cfg, mm_dut>>

\* a rising edge: the responder drives the head of its queue, the calls
\* waiting for the edge drive or deassert
MmClockEdge ==
    /\ mm_phase = "ro"
    /\ mm_phase' = "drive"
    /\ LET r == MemEdge(mm_mem, mm_bus, mm_cfg, NoStall)
       IN  /\ mm_mem' = r.mem
           /\ MmHandOver(MasterRun(MmCallers, [calls |-> mm_call, bus |-> r.bus,
                                               busy |-> mm_busy], mm_cfg, "drive"), "drive")
    /\ UNCHANGED <<mm_cfg, mm_dut>>

\* one caller making its calls one after the other
MmNext ==
    \/ \E addr \in MmAddrs :
          \/ \E sync \in BOOLEAN : MmCall(1, "read", addr, 0, sync) /\ UNCHANGED <<stVars, pkVars, obVars, apVars>>
          \/ \E value \in MmWords : MmCall(1, "write", addr, value, TRUE) /\ UNCHANGED <<stVars, pkVars, obVars, apVars>>
    \/ MmReadOnly /\ UNCHANGED <<stVars, pkVars, obVars, apVars>>
    \/ MmClockEdge /\ UNCHANGED <<stVars, pkVars, obVars, apVars>>

(***************************************************************************)
(* Concurrent callers of one master.                                       *)
(***************************************************************************)
LkInit ==
    /\ MmInit
    /\ mm_cfg.canRead /\ mm_cfg.canWrite

LkNext ==
    \/ \E k \in 1..MmCallers :
          \/ \E sync \in BOOLEAN : MmCall(k, "read", 0, 0, sync) /\ UNCHANGED <<stVars, pkVars, obVars, apVars>>
          \/ MmCall(k, "write", 0, WordOf(0, MmDataBytes), TRUE) /\ UNCHANGED <<stVars, pkVars, obVars, apVars>>
    \/ MmReadOnly /\ UNCHANGED <<stVars, pkVars, obVars, apVars>>
    \/ MmClockEdge /\ UNCHANGED <<stVars, pkVars, obVars, apVars>>

(***************************************************************************)
(* The master on a bus whose other end is any slave: waitrequest,          *)
(* readdatavalid and readdata take any defined value at each rising edge.  *)
(***************************************************************************)
\* what a slave can drive at an edge on the wires the bus has.  readdatavalid
\* and readdata are sampled by a read that deasserts at this edge or polls,
\* and readdata that comes without readdatavalid on a bus with that wire is
\* not sampled: what is not sampled comes with one value
MaSlaves(cfg, calls) ==
    LET sampled == \E k \in 1..MmCallers : calls[k].pc \in {"r_e2", "r_poll"}
        quiet   == IntToBits(WordOf(0, MmDataBytes), MmDataBits)
    IN  {s \in [waitrequest   : IF cfg.hasWaitRequest THEN {"0", "1"} ELSE {"0"},
                readdatavalid : IF cfg.hasReadDataValid /\ sampled THEN {"0", "1"} ELSE {"0"},
                readdata      : {IntToBits(x, MmDataBits) : x \in MmWords}] :
           (~sampled \/ (cfg.hasReadDataValid /\ s.readdatavalid = "0")) => s.readdata = quiet}

MaInit ==
    /\ MmInit
    /\ mm_cfg.latMin = 1 /\ mm_cfg.latMax = 1

\* the read-only phase of a cycle: the master looks at waitrequest,
\* readdatavalid and readdata
MaReadOnly ==
    /\ mm_phase = "drive"
    /\ mm_phase' = "ro"
    /\ MmHandOver(MasterRun(MmCallers, [calls |-> mm_call, bus |-> mm_bus, busy |-> mm_busy],
                            mm_cfg, "ro"), "ro")
    /\ UNCHANGED <<mm_cfg, mm_mem, mm_dut>>

\* a rising edge: the slave drives its wires, the calls waiting for the edge
\* drive or deassert
MaClockEdge ==
    /\ mm_phase = "ro"
    /\ mm_phase' = "drive"
    /\ \E s \in MaSlaves(mm_cfg, mm_call) :
          MmHandOver(MasterRun(MmCallers,
                               [calls |-> mm_call,
                                bus   |-> [mm_bus EXCEPT !.waitrequest = s.waitrequest,
                                                         !.readdatavalid = s.readdatavalid,
                                                         !.readdata = s.readdata],
                                busy  |-> mm_busy], mm_cfg, "drive"), "drive")
    /\ UNCHANGED <<mm_cfg, mm_mem, mm_dut>>

MaNext ==
    \/ \E k \in 1..MmCallers :
          \/ \E sync \in BOOLEAN : MmCall(k, "read", 0, 0, sync) /\ UNCHANGED <<stVars, pkVars, obVars, apVars>>
          \/ MmCall(k, "write", 0, WordOf(0, MmDataBytes), TRUE) /\ UNCHANGED <<stVars, pkVars, obVars, apVars>>
    \/ MaReadOnly /\ UNCHANGED <<stVars, pkVars, obVars, apVars>>
    \/ MaClockEdge /\ UNCHANGED <<stVars, pkVars, obVars, apVars>>

(***************************************************************************)
(* The responder driven by a bus master other than AvalonMaster: single    *)
(* word requests with any byte-enable on a bus without burstcount, whole   *)
(* bursts held until wait-request is low on a bus with it.                 *)
(***************************************************************************)
\* the properties of a bus with a burstcount wire
BurstConfigs ==
    {c \in [hasReadDataValid : {TRUE}, hasWaitRequest : {TRUE}, hasByteEnable : {TRUE},
            canRead : {TRUE}, canWrite : {TRUE}, latMin : {1}, latMax : {1},
            hasBurstCount : {TRUE}, writeBurstWaitReq : BOOLEAN,
            maxWaitReqLen : {0, MaxStall}, readLatency : {0, 1}] :
        ~c.writeBurstWaitReq => c.maxWaitReqLen = 0}

\* the wirings the responder is driven in
MemConfigs ==
    {c \in MmConfigs : c.canRead /\ c.canWrite /\ ~c.hasWaitRequest /\ c.latMax > 0}
    \cup BurstConfigs

\* the draws _waitrequest can make
StallDraws(cfg) ==
    IF cfg.hasBurstCount /\ cfg.writeBurstWaitReq THEN {NoStall} \cup 0..cfg.maxWaitReqLen
    ELSE {NoStall}

\* every byte-enable value
ByteEnables == [1..MmDataBytes -> {"0", "1"}]

\* the command of a bus master that drives nothing
DutNothing ==
    [op |-> "idle", addr |-> 0, words |-> <<>>, n |-> 0, be |-> ZeroBits(MmDataBytes)]

\* the words of a burst of k words that starts with w: the two words of
\* MmWords in turn
BurstWords(w, k) ==
    [i \in 1..k |-> IF i % 2 = 1 THEN w ELSE CHOOSE v \in MmWords : v # w]

\* what the bus master may start at an edge: nothing, a read, or a write.  On
\* a bus without burstcount address 0 is written with any byte-enable once it
\* was written as a whole, address 1 as a whole, and an address is read while
\* it holds nothing or a whole word of MmWords; on a bus with burstcount
\* bursts are written from address 0 and read from there or one word further
DutCommands(cfg, store) ==
    {DutNothing}
    \cup (IF cfg.hasBurstCount
          THEN {[op |-> "write", addr |-> a, words |-> BurstWords(w, k), n |-> k,
                 be |-> FullByteEnable] :
                   a \in {0}, w \in MmWords, k \in 1..MaxBurst}
               \cup {[op |-> "read", addr |-> a, words |-> <<>>, n |-> k,
                      be |-> FullByteEnable] : a \in {0, MmDataBytes}, k \in 1..MaxBurst}
          ELSE {[op |-> "read", addr |-> a, words |-> <<>>, n |-> 1,
                 be |-> IF cfg.hasByteEnable THEN FullByteEnable ELSE ZeroBits(MmDataBytes)] :
                   a \in {b \in MmAddrs : b \in DOMAIN store => store[b] \in MmWords}}
               \cup {[op |-> "write", addr |-> 0, words |-> <<w>>, n |-> 1, be |-> b] :
                       w \in MmWords,
                       b \in IF ~cfg.hasByteEnable THEN {ZeroBits(MmDataBytes)}
                             ELSE IF 0 \in DOMAIN store THEN ByteEnables
                             ELSE {FullByteEnable}}
               \cup {[op |-> "write", addr |-> 1, words |-> <<WordOf(0, MmDataBytes)>>,
                      n |-> 1,
                      be |-> IF cfg.hasByteEnable THEN FullByteEnable
                             ELSE ZeroBits(MmDataBytes)]})

\* byte lane i of a word
ByteOf(v, i) == (v \div Pow2(8 * i)) % 256

RECURSIVE LaneMerge(_, _, _, _)
\* lanes 0 .. n-1 taken from d where the byte-enable bit of the lane is set,
\* and from p elsewhere; bit i of the byte-enable is be[Len(be) - i]
LaneMerge(d, p, be, n) ==
    IF n = 0 THEN 0
    ELSE LaneMerge(d, p, be, n - 1)
         + (IF be[Len(be) - (n - 1)] = "1" THEN ByteOf(d, n - 1) ELSE ByteOf(p, n - 1))
           * Pow2(8 * (n - 1))

RECURSIVE Expect(_, _, _, _)
\* the responses due for the n words at addr, addr + step, ... given what was
\* written
Expect(store, addr, step, n) ==
    IF n = 0 THEN <<>>
    ELSE <<IF addr \in DOMAIN store THEN RespValue(store[addr]) ELSE RespUnknown>>
         \o Expect(store, addr + step, step, n - 1)

\* the wires the bus master drives for a command
DutDrive(bus, c, word) ==
    [bus EXCEPT !.address = IF c.op = "idle" THEN XBits(MmAddrBits)
                            ELSE IntToBits(c.addr, MmAddrBits),
                !.read = IF c.op = "read" THEN "1" ELSE "0",
                !.write = IF c.op = "write" THEN "1" ELSE "0",
                !.writedata = IF c.op = "write" THEN IntToBits(word, MmDataBits)
                              ELSE XBits(MmDataBits),
                !.byteenable = c.be,
                !.burstcount = IF c.op = "idle" THEN XBits(MmBurstBits)
                               ELSE IntToBits(c.n, MmBurstBits)]

\* the bus master at a rising edge, on a bus without burstcount: every request
\* lasts one cycle.  old is the bus before the edge, bus what the responder
\* made of it
DutSingle(cmd, old, bus, hist) ==
    [dut  |-> DutIdle,
     bus  |-> [DutDrive(bus, cmd, IF cmd.op = "write" THEN cmd.words[1] ELSE 0)
                  EXCEPT !.burstcount = bus.burstcount],
     hist |-> [hist EXCEPT
                 !.pending = IF cmd.op = "read"
                             THEN @ \o Expect(hist.store, cmd.addr, 1, 1) ELSE @,
                 !.store = IF cmd.op = "write"
                           THEN [a \in (DOMAIN @) \cup {cmd.addr} |->
                                   IF a # cmd.addr THEN @[a]
                                   ELSE IF ~mm_cfg.hasByteEnable THEN cmd.words[1]
                                   ELSE LaneMerge(cmd.words[1],
                                                  IF a \in DOMAIN @ THEN @[a] ELSE 0,
                                                  cmd.be, MmDataBytes)]
                           ELSE @]]

\* the bus master at a rising edge, on a bus with burstcount: a request is held
\* until wait-request is seen low at an edge, a write burst then goes to its
\* next word, a read burst collects its words
DutBurst(d, cmd, old, bus, hist) ==
    CASE d.pc = "idle" /\ cmd.op = "idle" -> [dut |-> d, bus |-> bus, hist |-> hist]
      [] d.pc = "idle" /\ cmd.op # "idle" ->
            [dut  |-> [pc |-> cmd.op, addr |-> cmd.addr, words |-> cmd.words, idx |-> 1,
                       n |-> cmd.n, got |-> 0],
             bus  |-> DutDrive(bus, cmd, IF cmd.op = "write" THEN cmd.words[1] ELSE 0),
             hist |-> IF cmd.op = "write" THEN hist
                      ELSE [hist EXCEPT !.pending =
                              @ \o Expect(hist.store, cmd.addr, MmDataBytes, cmd.n)]]
      [] d.pc = "write" /\ old.waitrequest = "0" ->
            LET h == [hist EXCEPT !.store =
                        [a \in (DOMAIN @) \cup {d.addr + (d.idx - 1) * MmDataBytes} |->
                            IF a = d.addr + (d.idx - 1) * MmDataBytes THEN d.words[d.idx]
                            ELSE @[a]]]
            IN  IF d.idx < d.n
                THEN [dut  |-> [d EXCEPT !.idx = @ + 1],
                      bus  |-> [bus EXCEPT !.writedata = IntToBits(d.words[d.idx + 1], MmDataBits)],
                      hist |-> h]
                ELSE [dut |-> DutIdle, bus |-> DutDrive(bus, DutNothing, 0), hist |-> h]
      [] d.pc = "read" /\ old.waitrequest = "0" ->
            [dut  |-> IF d.n = 0 THEN DutIdle ELSE [d EXCEPT !.pc = "collect"],
             bus  |-> DutDrive(bus, DutNothing, 0),
             hist |-> hist]
      [] d.pc = "collect" /\ old.readdatavalid = "1" ->
            [dut  |-> IF d.got + 1 = d.n THEN DutIdle ELSE [d EXCEPT !.got = @ + 1],
             bus  |-> bus, hist |-> hist]
      [] OTHER -> [dut |-> d, bus |-> bus, hist |-> hist]

MsInit ==
    /\ mm_phase = "drive"
    /\ mm_cfg \in MemConfigs
    /\ mm_bus = MmBusOf(mm_cfg)
    /\ mm_busy = FALSE
    /\ mm_call = [k \in 1..MmCallers |-> CallIdle]
    /\ mm_mem = MemInit
    /\ mm_dut = DutIdle
    /\ mm_hist = MmHistInit

\* a response is due at this edge
MemDrives(m) ==
    m.pc \in {"edge", "br_word"} /\ m.responses # <<>> /\ m.responses[1].kind # "none"

\* the bus master of the responder at a rising edge
DutStep(d, cmd, old, bus, hist) ==
    IF mm_cfg.hasBurstCount THEN DutBurst(d, cmd, old, bus, hist)
    ELSE DutSingle(cmd, old, bus, hist)

\* a rising edge: the responder task and the bus master Dut run.  _waitrequest
\* draws only where the task reaches it, the bus master starts a command of
\* cmds only when it has none under way
MsEdgeBy(cmds, Dut(_, _, _, _, _)) ==
    /\ mm_phase = IF mm_cfg.hasBurstCount THEN "mid" ELSE "ro"
    /\ mm_mem.pc # "failed"
    /\ mm_phase' = "drive"
    /\ \E draw \in IF mm_mem.pc \in {"br_e2", "br_lat", "br_word", "bw_edge"}
                    THEN StallDraws(mm_cfg) ELSE {NoStall},
          cmd \in IF mm_dut.pc # "idle" THEN {DutNothing} ELSE cmds :
       \E r \in {MemEdge(mm_mem, mm_bus, mm_cfg, draw)} :
       \E h \in {IF MemDrives(mm_mem) /\ mm_hist.pending # <<>>
                 THEN [mm_hist EXCEPT !.pending = Tail(@)]
                 ELSE mm_hist} :
       \E d \in {Dut(mm_dut, cmd, mm_bus, r.bus, h)} :
          /\ mm_mem' = r.mem
          /\ mm_dut' = d.dut
          /\ mm_bus' = d.bus
          /\ mm_hist' = d.hist
    /\ UNCHANGED <<mm_cfg, mm_busy, mm_call>>

MsEdgeWith(cmds) == MsEdgeBy(cmds, DutStep)

MsClockEdge ==
    MsEdgeWith({c \in DutCommands(mm_cfg, mm_hist.store) :
                  c.op = "read" /\ ~mm_cfg.hasBurstCount => mm_hist.pending = <<>>})

\* the read-only phase: the responder task inspects the strobes
MsReadOnly ==
    /\ mm_phase = "drive"
    /\ mm_mem.pc # "failed"
    /\ mm_phase' = "ro"
    /\ \E l \in IF mm_bus.read = "1" THEN mm_cfg.latMin..mm_cfg.latMax ELSE {mm_cfg.latMin},
          draw \in IF mm_bus.write = "1" THEN StallDraws(mm_cfg) ELSE {NoStall} :
       \E r \in {MemReadOnly(mm_mem, mm_bus, mm_cfg, l, draw)} :
          /\ mm_mem' = r.mem
          /\ mm_bus' = r.bus
    /\ UNCHANGED <<mm_cfg, mm_busy, mm_call, mm_dut, mm_hist>>

\* the time step of the falling edge
MsMid ==
    /\ mm_phase = "ro"
    /\ mm_mem.pc # "failed"
    /\ mm_cfg.hasBurstCount
    /\ mm_phase' = "mid"
    /\ \E r \in {MemMid(mm_mem, mm_bus, mm_cfg)} :
          /\ mm_mem' = r.mem
          /\ mm_bus' = r.bus
    /\ UNCHANGED <<mm_cfg, mm_busy, mm_call, mm_dut, mm_hist>>

MsNext ==
    \/ MsClockEdge /\ UNCHANGED <<stVars, pkVars, obVars, apVars>>
    \/ MsReadOnly /\ UNCHANGED <<stVars, pkVars, obVars, apVars>>
    \/ MsMid /\ UNCHANGED <<stVars, pkVars, obVars, apVars>>

(***************************************************************************)
(* The burst responder driven with requests that its checks log: an        *)
(* address off the word boundary, a byte-enable short of the whole word, a *)
(* burst count of 0.                                                       *)
(***************************************************************************)
\* a byte-enable that selects the low lane only
LowLaneOnly == [i \in 1..MmDataBytes |-> IF i = MmDataBytes THEN "1" ELSE "0"]

\* the requests: each is off in one of the three ways
BbCommands ==
    {[op |-> o, addr |-> a, words |-> <<WordOf(0, MmDataBytes)>>, n |-> k, be |-> b] :
        o \in {"read", "write"},
        a \in {0, 1}, k \in {0, 1}, b \in {FullByteEnable, LowLaneOnly}}
    \ {[op |-> o, addr |-> 0, words |-> <<WordOf(0, MmDataBytes)>>, n |-> 1,
         be |-> FullByteEnable] : o \in {"read", "write"}}

BbInit ==
    /\ MsInit
    /\ mm_cfg \in BurstConfigs

BbClockEdge == MsEdgeWith(BbCommands \cup {DutNothing})

BbNext ==
    \/ BbClockEdge /\ UNCHANGED <<stVars, pkVars, obVars, apVars>>
    \/ MsReadOnly /\ UNCHANGED <<stVars, pkVars, obVars, apVars>>
    \/ MsMid /\ UNCHANGED <<stVars, pkVars, obVars, apVars>>

(***************************************************************************)
(* The non-burst responder under read strobes in any cycles, consecutive   *)
(* ones included.                                                          *)
(***************************************************************************)
RdInit ==
    /\ MsInit
    /\ ~mm_cfg.hasBurstCount

\* the bus master starts any request at any edge
RdClockEdge == MsEdgeWith(DutCommands(mm_cfg, mm_hist.store))

RdNext ==
    \/ RdClockEdge /\ UNCHANGED <<stVars, pkVars, obVars, apVars>>
    \/ MsReadOnly /\ UNCHANGED <<stVars, pkVars, obVars, apVars>>

(***************************************************************************)
(* The non-burst responder on a bus without byteenable under read strobes  *)
(* in any cycles: address 0 is written as a whole, both addresses are read. *)
(***************************************************************************)
FfInit ==
    /\ RdInit
    /\ ~mm_cfg.hasByteEnable

\* the bus master starts a read, or a write of address 0, at any edge
FfClockEdge ==
    MsEdgeWith({c \in DutCommands(mm_cfg, mm_hist.store) : c.op = "write" => c.addr = 0})

FfNext ==
    \/ FfClockEdge /\ UNCHANGED <<stVars, pkVars, obVars, apVars>>
    \/ MsReadOnly /\ UNCHANGED <<stVars, pkVars, obVars, apVars>>

(***************************************************************************)
(* The burst responder with an observer of its wires that counts the edges *)
(* since a burst read was sampled, under a bus master that does not wait   *)
(* for the read data before its next request.                              *)
(***************************************************************************)
\* a burst read the checks of _respond log nothing about
ObValidRead(bus) ==
    /\ ~BurstUnresolved(bus)
    /\ BurstDiag(BitsToInt(bus.address), bus) = {}

\* the edge at which the observer has seen the whole answer: two edges of
\* wait-request, readLatency edges, n words, and one edge more
ObLast(obs, cfg) == 2 + cfg.readLatency + obs.n + 1

\* the words held by the store at byteaddr, byteaddr + MmDataBytes, ...: n
\* words, each the bytes at its MmDataBytes addresses, lowest address first
\* in the low-order lane
ObWords(mem, byteaddr, n) ==
    [k \in 1..n |->
        LET at == byteaddr + (k - 1) * MmDataBytes
        IN  IF \A i \in 0..(MmDataBytes - 1) : at + i \in DOMAIN mem
            THEN RespValue(LoadBytes(mem, at, MmDataBytes))
            ELSE RespUnknown]

\* the read-only phase: the task samples a read strobe when it is at
\* "await ReadOnly()"
ObReadOnly(obs, m, bus, cfg) ==
    IF obs.since >= 0 /\ obs.since < ObLast(obs, cfg) THEN obs
    ELSE IF m.pc = "ro" /\ bus.read = "1" /\ ObValidRead(bus)
    THEN [since |-> 0, n |-> BitsToInt(bus.burstcount),
          words |-> ObWords(m.mem, BitsToInt(bus.address), BitsToInt(bus.burstcount))]
    ELSE ObIdle

\* a rising edge
ObEdge(obs) == IF obs.since >= 0 THEN [obs EXCEPT !.since = @ + 1] ELSE obs

\* DutBurst of a bus master that is free for its next request as soon as
\* its read was taken
DutPosted(d, cmd, old, bus, hist) ==
    LET r == DutBurst(d, cmd, old, bus, hist)
    IN  IF r.dut.pc = "collect" THEN [r EXCEPT !.dut = DutIdle] ELSE r

\* the requests of that bus master: a read once the words of the last one
\* were driven, a write at any time
BrCommands ==
    {c \in DutCommands(mm_cfg, mm_hist.store) : c.op = "read" => mm_hist.pending = <<>>}

BrInit ==
    /\ MsInit
    /\ mm_cfg \in BurstConfigs
    /\ mm_obs = ObIdle

BrReadOnly ==
    /\ MsReadOnly
    /\ mm_obs' = ObReadOnly(mm_obs, mm_mem, mm_bus, mm_cfg)

BrMid == MsMid /\ UNCHANGED mm_obs

BrClockEdge ==
    /\ MsEdgeBy(BrCommands, DutPosted)
    /\ mm_obs' = ObEdge(mm_obs)

BrNext ==
    \/ BrClockEdge /\ UNCHANGED <<stVars, pkVars, apVars>>
    \/ BrReadOnly /\ UNCHANGED <<stVars, pkVars, apVars>>
    \/ BrMid /\ UNCHANGED <<stVars, pkVars, apVars>>

(***************************************************************************)
(* The responder constructed with the burstCountUnits and addressUnits     *)
(* properties given.                                                       *)
(***************************************************************************)
\* the values the two properties are given
MmUnits == {"symbols", "words"}

\* __init__ with the two properties: a value other than "symbols" is logged,
\* the construction goes on and the _respond task is started
MemConstruct(burstCountUnits, addressUnits) ==
    [MemInit EXCEPT !.diag = (IF burstCountUnits # "symbols" THEN {"burstCountUnits"} ELSE {})
                             \cup (IF addressUnits # "symbols" THEN {"addressUnits"} ELSE {})]

\* the wirings the constructed responder is driven in
UnitsConfigs ==
    {c \in MemConfigs : /\ c.hasBurstCount => ~c.writeBurstWaitReq
                        /\ ~c.hasBurstCount => c.hasReadDataValid /\ ~c.hasByteEnable}

UnInit ==
    /\ mm_phase = "drive"
    /\ mm_cfg \in UnitsConfigs
    /\ mm_bus = MmBusOf(mm_cfg)
    /\ mm_busy = FALSE
    /\ mm_call = [k \in 1..MmCallers |-> CallIdle]
    /\ \E b \in MmUnits, a \in MmUnits : mm_mem = MemConstruct(b, a)
    /\ mm_dut = DutIdle
    /\ mm_hist = MmHistInit

(***************************************************************************)
(* AvalonMemory._avalon_properties: a dict held by the class.  An instance *)
(* has no attribute of that name, so self._avalon_properties is the table  *)
(* of the class, in __init__ and ever after.                               *)
(***************************************************************************)
ApKeys == {"burstCountUnits", "addressUnits", "readLatency", "WriteBurstWaitReq",
           "MaxWaitReqLen"}

\* the table as the class body declares it
ApDefaults ==
    [k \in ApKeys |->
        CASE k = "burstCountUnits" -> "symbols"
          [] k = "addressUnits" -> "symbols"
          [] k = "readLatency" -> "1"
          [] k = "WriteBurstWaitReq" -> "True"
          [] k = "MaxWaitReqLen" -> "4"]

\* a value of a property other than the declared one
ApOther(k) ==
    CASE k = "burstCountUnits" -> "words"
      [] k = "addressUnits" -> "words"
      [] k = "readLatency" -> "0"
      [] k = "WriteBurstWaitReq" -> "False"
      [] k = "MaxWaitReqLen" -> "0"

\* the avl_properties arguments: none, or one property, given its declared
\* value or another
ApGiven ==
    {<<>>} \cup UNION {{[j \in {k} |-> ApDefaults[k]], [j \in {k} |-> ApOther(k)]} : k \in ApKeys}

\* "for key, value in self._avalon_properties.items():
\*      self._avalon_properties[key] = avl_properties.get(key, value)",
\* skipped when avl_properties is {}
ApResolve(table, given) ==
    IF given = <<>> THEN table
    ELSE [k \in ApKeys |-> IF k \in DOMAIN given THEN given[k] ELSE table[k]]

\* self._avalon_properties of a constructed responder
ApSeen(i) == ap_class

ApInit ==
    /\ ap_class = ApDefaults
    /\ ap_made = <<>>

ApParked == ApInit

\* AvalonMemory(..., avl_properties = given)
ApConstruct(given) ==
    /\ Len(ap_made) < MaxInstances
    /\ ap_class' = ApResolve(ap_class, given)
    /\ ap_made' = Append(ap_made, [given |-> given, found |-> ApResolve(ap_class, given)])

ApNext == \E given \in ApGiven : ApConstruct(given) /\ UNCHANGED <<stVars, pkVars, mmVars, obVars>>

(***************************************************************************)
(* Specifications.                                                         *)
(***************************************************************************)
\* a bus that takes no step: one word-level send in flight nowhere
StParked ==
    /\ st_phase = "drive"
    /\ st_valid = "0"
    /\ st_data = XBits(StDataBits)
    /\ st_cfg = [hasReady |-> FALSE, bigEndian |-> TRUE, throttled |-> FALSE]
    /\ st_ready = "1"
    /\ st_drv = [pc |-> "idle", onTrue |-> TRUE, on |-> 0, off |-> 0, gap |-> 0, cur |-> 0]
    /\ st_sent = <<>>
    /\ st_recv = <<>>
    /\ st_hist = [readyHigh |-> TRUE]

InitST == StInit /\ PkParked /\ MmParked /\ ObParked /\ ApParked

SpecST == InitST /\ [][StNext]_vars

InitPktMon == PmInit /\ StParked /\ MmParked /\ ObParked /\ ApParked

SpecPktMon == InitPktMon /\ [][PmNext]_vars

InitPkts == PkInit /\ StParked /\ MmParked /\ ObParked /\ ApParked

SpecPkts == InitPkts /\ [][PkNext]_vars

InitPktWire == PwInit /\ StParked /\ MmParked /\ ObParked /\ ApParked

SpecPktWire == InitPktWire /\ [][PwNext]_vars

InitMon == PwInit /\ ~pk_cfg.hasChannel /\ StParked /\ MmParked /\ ObParked /\ ApParked

SpecMon == InitMon /\ [][BmNext]_vars

InitBadBurst == BbInit /\ StParked /\ PkParked /\ ObParked /\ ApParked

SpecBadBurst == InitBadBurst /\ [][BbNext]_vars

InitUnits == UnInit /\ StParked /\ PkParked /\ ObParked /\ ApParked

SpecUnits == InitUnits /\ [][MsNext]_vars

InitProps == ApInit /\ StParked /\ PkParked /\ MmParked /\ ObParked

SpecProps == InitProps /\ [][ApNext]_vars

InitMaster == MaInit /\ StParked /\ PkParked /\ ObParked /\ ApParked

SpecMaster == InitMaster /\ [][MaNext]_vars

InitBurstRead == BrInit /\ StParked /\ PkParked /\ ApParked

SpecBurstRead == InitBurstRead /\ [][BrNext]_vars

InitReads == RdInit /\ StParked /\ PkParked /\ ObParked /\ ApParked

SpecReads == InitReads /\ [][RdNext]_vars

InitFifo == FfInit /\ StParked /\ PkParked /\ ObParked /\ ApParked

SpecFifo == InitFifo /\ [][FfNext]_vars

InitPktDrv == PdInit /\ StParked /\ MmParked /\ ObParked /\ ApParked

SpecPktDrv == InitPktDrv /\ [][PdNext]_vars

(***************************************************************************)
(* A streaming bus with a ready wire, word-level or packetized, under any   *)
(* ready pattern and any throttle profile; the packetized driver sends     *)
(* several payloads back to back or with idle cycles between.              *)
(***************************************************************************)
SsLengths == {0, PkWordBytes + 1}

SsPayloads == {[i \in 1..n |-> i] : n \in SsLengths}

\* the bus has a ready wire; the symbol order, which the monitors apply to
\* an accepted word, is fixed
SsStInit == StInit /\ st_cfg.hasReady /\ st_cfg.bigEndian

SsPkInit == PkInit /\ pk_cfg.hasReady /\ ~pk_cfg.hasChannel /\ pk_cfg.bigEndian

\* a caller awaits _send_string(string, sync) once the send before it returned
SsPkSend(string, sync) ==
    /\ pk_drv.pc = "idle"
    /\ Len(pk_calls) < MaxSends
    /\ pk_calls' = Append(pk_calls, [string |-> string, sync |-> sync, channel |-> NoChannel])
    /\ \E draw \in Draws(pk_cfg.throttled) :
          LET r == PkSendString(pk_drv, string, sync, NoChannel, draw, pk_bus, pk_cfg)
          IN  /\ pk_drv' = r.drv
              /\ pk_bus' = r.bus
    /\ UNCHANGED <<pk_phase, pk_reset, pk_cfg, pk_mon, pk_hist>>

\* the bus in use is the word-level one, the packetized one
SsWordLevel == PkParked

SsPacketized == StParked

\* one clock cycle of the packetized bus; pk_phase tells a cycle from the
\* next: "drive" in one, "again" in the other
SsPkCycle ==
    /\ PkCycleWires
    /\ pk_phase' = (IF pk_phase = "drive" THEN "again" ELSE "drive")

\* a clock cycle, or half of one, of the bus in use
SsTick ==
    \/ SsWordLevel /\ StReadOnly /\ UNCHANGED <<pkVars, mmVars, obVars, apVars>>
    \/ SsWordLevel /\ StClockEdge /\ UNCHANGED <<pkVars, mmVars, obVars, apVars>>
    \/ SsPacketized /\ SsPkCycle /\ UNCHANGED <<stVars, mmVars, obVars, apVars>>

SsNext ==
    \/ \E w \in StWords :
          SsWordLevel /\ StSend(w, FALSE) /\ UNCHANGED <<pkVars, mmVars, obVars, apVars>>
    \/ \E string \in SsPayloads :
          SsPacketized /\ SsPkSend(string, FALSE) /\ UNCHANGED <<stVars, mmVars, obVars, apVars>>
    \/ SsTick

InitStreams ==
    /\ \/ SsStInit /\ PkParked
       \/ SsPkInit /\ StParked
    /\ MmParked /\ ObParked /\ ApParked

\* the simulator always reaches the read-only phase of the time step of an
\* edge, in which the word-level driver samples ready
SpecStreams ==
    /\ InitStreams /\ [][SsNext]_vars
    /\ WF_vars(SsWordLevel /\ StReadOnly /\ UNCHANGED <<pkVars, mmVars, obVars, apVars>>)

InitMM == MmInit /\ StParked /\ PkParked /\ ObParked /\ ApParked

SpecMM == InitMM /\ [][MmNext]_vars

InitLock == LkInit /\ StParked /\ PkParked /\ ObParked /\ ApParked

InitMem == MsInit /\ StParked /\ PkParked /\ ObParked /\ ApParked

SpecMem == InitMem /\ [][MsNext]_vars

SpecLock == InitLock /\ [][LkNext]_vars

(***************************************************************************)
(* Claims.                                                                 *)
(***************************************************************************)
\* the bytes of word v, most significant first
WordBytesOf(v, n) == [k \in 1..n |-> (v \div Pow2(8 * (n - k))) % 256]

\* what the monitor is expected to deliver for word v: its bytes, first
\* symbol first
StExpected(v) ==
    IF st_cfg.bigEndian THEN WordBytesOf(v, StWordBytes)
    ELSE Reverse(WordBytesOf(v, StWordBytes))

\* the sends that have returned
StCompleted == Len(st_sent) - (IF st_drv.pc = "idle" THEN 0 ELSE 1)

\* C1: with ready high in every cycle (or no ready wire) and no throttling,
\* the word-level monitor has delivered exactly the words of the sends that
\* returned: in the order sent, each once, with the bytes of the word sent.
C1_WordsDeliveredInOrder ==
    (~st_cfg.throttled /\ st_hist.readyHigh)
        => st_recv = [i \in 1..StCompleted |-> StExpected(st_sent[i])]

\* three words sent back to back and with idle cycles between, all delivered
C1_Witness ==
    /\ ~st_cfg.throttled
    /\ st_cfg.hasReady
    /\ st_hist.readyHigh
    /\ st_drv.pc = "idle"
    /\ Len(st_sent) >= 3
    /\ Len(st_recv) = Len(st_sent)
    /\ st_sent[1] # st_sent[2]

\* C3: once a running packetized monitor has accepted a word with
\* start-of-packet while a packet was open, it has raised the duplicate-start
\* protocol error, and what it has delivered is what it had delivered before
\* that cycle: the open packet's bytes are not delivered then or later.
C3_DuplicateStartRaises ==
    pk_hist.dup => /\ pk_mon.err = "duplicate_sop"
                   /\ pk_mon.delivered = pk_hist.snap

\* a second start-of-packet hit a monitor holding the bytes of an open packet
C3_Witness ==
    /\ pk_hist.dup
    /\ pk_mon.err = "duplicate_sop"
    /\ Len(pk_mon.pkt) >= PkWordBytes
    /\ pk_mon.in_pkt

\* C9: the stall error is raised exactly when the cycles without an accepted
\* word inside an open packet, counted from the wires since the last accepted
\* word, reach invalidTimeout = T > 0: never before, never with T = 0; the
\* monitor's count follows that count (0 after an accepted word, and
\* unchanged outside an open packet).
C9_StallTimeoutAtBoundary ==
    /\ pk_mon.err = "timeout" =>
          (pk_cfg.invalidTimeout > 0 /\ pk_hist.stall = pk_cfg.invalidTimeout)
    /\ (pk_cfg.invalidTimeout > 0 /\ pk_hist.stall >= pk_cfg.invalidTimeout) =>
          pk_mon.err = "timeout"
    /\ pk_mon.err = "none" => pk_mon.invalid_cyclecount = pk_hist.stall
    /\ (pk_mon.err = "none" /\ ~pk_hist.open) => pk_mon.invalid_cyclecount = 0

\* a packet stalled for T cycles, on a bus with a ready wire, and the error
\* was raised
C9_Witness ==
    /\ pk_cfg.invalidTimeout > 0
    /\ pk_cfg.hasReady
    /\ pk_hist.open
    /\ pk_hist.stall = pk_cfg.invalidTimeout
    /\ pk_mon.err = "timeout"

\* the send call followed, once made
PkCall == pk_calls[1]

\* the call has returned without raising
PkReturned == pk_calls # <<>> /\ pk_drv.pc = "idle"

\* what the monitor delivers for the packet of the call
PkExpected ==
    [data    |-> PkCall.string,
     channel |-> IF pk_cfg.reportChannel
                 THEN (IF PkCall.channel = NoChannel THEN 0 ELSE PkCall.channel)
                 ELSE NoChannel]

\* three words were accepted, the third with end-of-packet and empty = W - 3,
\* and the one packet delivered is the payload
PkThreeWordsOnePacket ==
    /\ Len(pk_hist.words) = 3
    /\ pk_hist.words[1].sop = "1" /\ pk_hist.words[1].eop # "1"
    /\ pk_hist.words[2].sop # "1" /\ pk_hist.words[2].eop # "1"
    /\ pk_hist.words[3].sop # "1" /\ pk_hist.words[3].eop = "1"
    /\ pk_hist.words[3].empty = IntToBits(PkWordBytes - 3, PkEmptyBits)
    /\ pk_mon.delivered = <<PkExpected>>

\* C2 as stated: every returned send of a payload of 2*W+3 bytes put three
\* words on the bus, the third with end-of-packet and empty = W-3, and the
\* monitor delivered exactly that payload as one packet.
C2_AsStated ==
    (PkReturned /\ Len(PkCall.string) = 2 * PkWordBytes + 3) => PkThreeWordsOnePacket

\* C2, amended: the same, provided the monitor is out of reset and no stall
\* inside the packet (ready low or a throttle gap) reached a non-zero
\* invalidTimeout.
C2_PacketRoundTrip ==
    (/\ PkReturned
     /\ Len(PkCall.string) = 2 * PkWordBytes + 3
     /\ ~pk_reset
     /\ ~(pk_cfg.invalidTimeout > 0 /\ pk_hist.stall >= pk_cfg.invalidTimeout))
        => PkThreeWordsOnePacket

\* a 2*W+3 byte payload went over a throttled little-endian bus with
\* back-pressure and a stall timeout, and came out whole
C2_Witness ==
    /\ PkReturned
    /\ Len(PkCall.string) = 2 * PkWordBytes + 3
    /\ pk_cfg.hasReady /\ pk_cfg.throttled /\ ~pk_cfg.bigEndian
    /\ pk_cfg.invalidTimeout > 0
    /\ pk_mon.err = "none"
    /\ Len(pk_mon.delivered) = 1
    /\ pk_mon.delivered[1].data = PkCall.string

\* the channel argument of the call is outside [0, maxChannel]
PkChannelOutOfRange ==
    /\ pk_calls # <<>>
    /\ PkCall.channel # NoChannel
    /\ (PkCall.channel < 0 \/ PkCall.channel > pk_cfg.maxChannel)

\* C4: a send whose channel argument is outside [0, maxChannel] raises, for
\* every payload, and when it raises the driver has not waited for a clock
\* edge and has asserted neither valid nor a framing wire.
C4_ChannelErrorBeforeDrive ==
    PkChannelOutOfRange =>
        /\ pk_drv.pc # "idle"
        /\ pk_drv.pc = "error" =>
              /\ ~pk_drv.waited
              /\ pk_bus.valid # "1"
              /\ pk_bus.startofpacket # "1"
              /\ pk_bus.endofpacket # "1"

\* the last call the master returned from is a read
MmReadReturned == mm_hist.log # <<>> /\ mm_hist.log[1].op = "read"

\* the wirings in which a read is to return what the responder holds: with a
\* data-valid wire, or without one when the responder keeps its default
\* readlatency_min = readlatency_max = 1
MmSupportedWiring ==
    mm_cfg.hasReadDataValid \/ (mm_cfg.latMin = 1 /\ mm_cfg.latMax = 1)

\* C5: a read of an address the master wrote before returns the value last
\* written there, whatever latency the responder draws, with a data-valid
\* wire and, without one, under the default read latency of 1
C5_WriteThenReadReturnsValue ==
    (MmReadReturned /\ mm_hist.log[1].known /\ MmSupportedWiring)
        => mm_hist.log[1].ret = IntToBits(mm_hist.log[1].expect, MmDataBits)

\* the callers between their first write to the address and strobe wires and
\* their final deassertion
MmDriving == {k \in 1..MmCallers : mm_call[k].pc \in {"r_wait", "r_e2", "w_wait", "w_e2"}}

\* C10: at most one caller of a master is between its first write to the
\* wires and its final deassertion
C10_OneTransactionInFlight == Cardinality(MmDriving) <= 1

C10_Witness ==
    /\ MmDriving # {}
    /\ \E k \in 1..MmCallers : mm_call[k].pc = "lock"

\* the address on the wires
MmAddress == BitsToInt(mm_bus.address)

\* the step is the read-only phase of a cycle in which a responder without
\* burstcount sees the write strobe, with a byte-enable wire, for an address
\* its store holds
MsMaskedWrite ==
    /\ mm_phase = "drive" /\ mm_phase' = "ro"
    /\ mm_mem.pc = "ro"
    /\ ~mm_cfg.hasBurstCount /\ mm_cfg.hasByteEnable
    /\ mm_bus.write = "1"
    /\ MmAddress \in DOMAIN mm_mem.mem

C6_Step ==
    MsMaskedWrite =>
        /\ DOMAIN mm_mem'.mem = DOMAIN mm_mem.mem
        /\ \A a \in DOMAIN mm_mem.mem : a # MmAddress => mm_mem'.mem[a] = mm_mem.mem[a]
        /\ mm_mem'.mem[MmAddress] < Pow2(MmDataBits)
        /\ \A i \in 0..(MmDataBytes - 1) :
              ByteOf(mm_mem'.mem[MmAddress], i) =
                 IF mm_bus.byteenable[MmDataBytes - i] = "1"
                 THEN ByteOf(BitsToInt(mm_bus.writedata), i)
                 ELSE ByteOf(mm_mem.mem[MmAddress], i)

\* C6: a non-burst write of D with byte-enable M to an address that holds P
\* leaves there, in every byte lane i, byte i of D if bit i of M is set and
\* byte i of P otherwise, and changes no other address of the store
C6_ByteLaneMerge == [][C6_Step]_vars

C6_Witness ==
    /\ mm_phase = "ro"
    /\ ~mm_cfg.hasBurstCount /\ mm_cfg.hasByteEnable
    /\ mm_bus.write = "1"
    /\ mm_bus.byteenable \notin {FullByteEnable, ZeroBits(MmDataBytes)}
    /\ MmAddress \in DOMAIN mm_mem.mem
    /\ mm_mem.mem[MmAddress] \notin MmWords
    /\ 1 \in DOMAIN mm_mem.mem

\* the step is a rising edge at which the responder drives a response
MsResponds == mm_phase' = "drive" /\ MemDrives(mm_mem)

C7_Step ==
    mm_cfg.hasBurstCount =>
        /\ mm_mem'.pc # "failed"
        /\ MsResponds =>
              /\ mm_hist.pending # <<>>
              /\ mm_bus'.readdatavalid = "1"
              /\ mm_bus'.readdata =
                    IF mm_hist.pending[1].kind = "unknown" THEN XBits(MmDataBits)
                    ELSE IntToBits(mm_hist.pending[1].value, MmDataBits)

\* C7: on a bus with burstcount, byte-enable and data-valid wires the
\* responder serves every burst, whatever stalls it draws during a burst
\* write: its task does not fail, and the words it streams back for a burst
\* read are the words last written there, in their order
C7_BurstRoundTrip == [][C7_Step]_vars

\* the step is the read-only phase of a cycle in which a responder without
\* burstcount sees the read strobe for an address that was never written
MsUnwrittenRead ==
    /\ mm_phase = "drive" /\ mm_phase' = "ro"
    /\ mm_mem.pc = "ro"
    /\ ~mm_cfg.hasBurstCount
    /\ mm_bus.read = "1"
    /\ MmAddress \notin DOMAIN mm_hist.store

C8_Step ==
    /\ MsUnwrittenRead =>
          /\ mm_mem'.responses # <<>>
          /\ mm_mem'.responses[Len(mm_mem'.responses)] = RespUnknown
          /\ "uninitialized" \in mm_mem'.diag
          /\ mm_mem'.mem = mm_mem.mem
          /\ mm_mem'.pc = "edge"
    /\ (MsResponds /\ mm_hist.pending # <<>> /\ mm_hist.pending[1] = RespUnknown) =>
          /\ mm_bus'.readdata = XBits(MmDataBits)
          /\ mm_cfg.hasReadDataValid => mm_bus'.readdatavalid = "1"
          /\ "uninitialized" \in mm_mem'.diag
          /\ mm_mem'.mem = mm_mem.mem
          /\ mm_mem'.pc # "failed"

\* C8: the responder answers a read of an address that was never written,
\* a single word or a word of a burst, with a fully unknown word: it queues
\* an "unknown" response and logs a warning, drives readdata all unknown
\* when the response is due, leaves its store as it is, and does not fail
C8_UnwrittenReadIsUnknown == [][C8_Step]_vars

\* a word was answered as unknown, and a later read was answered with a value
C8_Witness ==
    /\ mm_cfg.hasBurstCount
    /\ mm_phase = "drive"
    /\ "uninitialized" \in mm_mem.diag
    /\ mm_bus.readdatavalid = "1"
    /\ IsResolvable(mm_bus.readdata)

\* the calls made on a master that lacks the strobe wire of their operation
MmIncapable ==
    {k \in 1..MmCallers :
        \/ mm_call[k].op = "read" /\ ~mm_cfg.canRead
        \/ mm_call[k].op = "write" /\ ~mm_cfg.canWrite}

\* C11: read on a master without a read wire and write on a master without
\* a write wire fail with the capability error (TestError); the call takes
\* no lock and drives no wire
C11_CapabilityError ==
    \A k \in MmIncapable :
        /\ mm_call[k].pc = "failed"
        /\ mm_call[k].err = "TestError"
        /\ ~mm_busy
        /\ mm_bus.read = "0" /\ mm_bus.write = "0"

\* a write refused on a master without a write wire, after a read of that
\* master returned
C11_Witness ==
    /\ \E k \in MmIncapable : mm_call[k].op = "write"
    /\ MmReadReturned

\* the packetized monitor task had not ended before the cycle sampled by
\* this step, and that cycle is outside reset
PwLiveCycle == pk_mon.err = "none" /\ ~pk_reset'

\* the symbols of a whole word in the order of transmission
PwWordSymbols(bus, cfg) == [k \in 1..PkWordBytes |-> PwSymbol(bus.data, k, cfg.bigEndian)]

C12_Step ==
    /\ PwLiveCycle =>
          IF PwAccepted(pk_bus', pk_cfg)
          THEN /\ pk_mon'.invalid_cyclecount = 0
               /\ \/ pk_mon'.err \notin {"none", "timeout"}
                  \/ pk_mon'.pkt # pk_mon.pkt
                  \/ pk_mon'.delivered # pk_mon.delivered
          ELSE /\ pk_mon'.pkt = pk_mon.pkt
               /\ pk_mon'.delivered = pk_mon.delivered
               /\ pk_mon'.in_pkt = pk_mon.in_pkt
               /\ pk_mon'.channel = pk_mon.channel
               /\ pk_mon'.err \in {"none", "timeout"}
    /\ ~pk_reset' =>
          st_recv' = IF PwAccepted(pk_bus', pk_cfg)
                     THEN Append(st_recv, PwWordSymbols(pk_bus', pk_cfg))
                     ELSE st_recv

PwLast(m) == m.delivered[Len(m.delivered)]

C13_Step ==
    pk_mon'.delivered # pk_mon.delivered =>
        /\ ~pk_reset'
        /\ PwAccepted(pk_bus', pk_cfg)
        /\ pk_bus'.endofpacket = "1"
        /\ pk_mon'.delivered =
              Append(pk_mon.delivered,
                     [data    |-> pk_hist'.bytes,
                      channel |-> IF pk_cfg.reportChannel THEN pk_hist'.chan ELSE NoChannel])
        /\ ~pk_mon'.in_pkt
        /\ pk_mon'.pkt = <<>>
        /\ pk_mon'.channel = NoChannel

\* C13: the packetized monitor delivers only in a cycle in which it accepts
\* a word with end-of-packet; it delivers the symbols of the words accepted
\* from the last start-of-packet word up to that word, in their order, with
\* the packet's channel when channel reporting is on, and is Idle with an
\* empty buffer and no fixed channel right after
C13_DeliveryAtEndOfPacket == [][C13_Step]_vars

\* a packet of two words, the second with an empty symbol, was delivered
\* with its channel on a bus whose first symbol is in the low-order bits
C13_Witness ==
    /\ ~pk_cfg.bigEndian /\ pk_cfg.reportChannel
    /\ Len(pk_mon.delivered) = 1
    /\ Len(pk_mon.delivered[1].data) = 2 * PkWordBytes - 1
    /\ pk_mon.delivered[1].channel = pk_cfg.maxChannel

C14_Step ==
    (/\ PwLiveCycle
     /\ PwAccepted(pk_bus', pk_cfg)
     /\ ~pk_mon.in_pkt
     /\ pk_bus'.startofpacket # "1") =>
        /\ pk_mon'.err = "outside_packet"
        /\ pk_mon'.delivered = pk_mon.delivered

\* C14: an Idle packetized monitor that accepts a word without
\* start-of-packet raises the data-outside-packet error and delivers
\* nothing for that word
C14_DataOutsidePacket == [][C14_Step]_vars

\* the error was raised by a word with end-of-packet that followed a
\* delivered packet
C14_Witness ==
    /\ pk_mon.err = "outside_packet"
    /\ Len(pk_mon.delivered) = 1
    /\ pk_bus.endofpacket = "1"

\* the step samples, outside reset, an accepted word on a bus with a channel
\* wire while the monitor task runs
PwChannelWord == PwLiveCycle /\ pk_cfg.hasChannel /\ PwAccepted(pk_bus', pk_cfg)

\* the accepted word is the first of a packet
PwFirstWord == pk_mon.pkt = <<>> /\ pk_bus'.startofpacket = "1"

C15_Step ==
    /\ (PwChannelWord /\ PwFirstWord /\ BitsToInt(pk_bus'.channel) > pk_cfg.maxChannel) =>
          /\ pk_mon'.err # "none"
          /\ IsResolvable(pk_bus'.data) => pk_mon'.err = "channel_max"
          /\ pk_mon'.delivered = pk_mon.delivered
    /\ (PwChannelWord /\ PwFirstWord /\ BitsToInt(pk_bus'.channel) <= pk_cfg.maxChannel
           /\ IsResolvable(pk_bus'.data)) =>
          /\ pk_mon'.err = "none"
          /\ pk_bus'.endofpacket # "1" => pk_mon'.channel = BitsToInt(pk_bus'.channel)
    /\ (PwChannelWord /\ pk_mon.in_pkt /\ pk_bus'.startofpacket # "1"
           /\ BitsToInt(pk_bus'.channel) # pk_hist.chan) =>
          /\ pk_mon'.err # "none"
          /\ IsResolvable(pk_bus'.data) => pk_mon'.err = "channel_changed"
          /\ pk_mon'.delivered = pk_mon.delivered
    /\ (pk_mon'.delivered # pk_mon.delivered /\ pk_cfg.reportChannel) =>
          PwLast(pk_mon').channel = pk_hist'.chan

\* C15: on a bus with a channel wire the channel of the first accepted word
\* of a packet is the packet's channel: the monitor raises if it exceeds
\* maxChannel, raises on a later accepted word of the packet with another
\* channel, reports the channel of the first word with the packet, and takes
\* the first word of the next packet with any channel up to maxChannel
C15_ChannelFixedByFirstWord == [][C15_Step]_vars

\* two packets were delivered on different channels
C15_Witness ==
    /\ pk_cfg.reportChannel
    /\ Len(pk_mon.delivered) = 2
    /\ pk_mon.delivered[1].channel # pk_mon.delivered[2].channel
    /\ pk_mon.err = "none"

C16_Step ==
    /\ (pk_mon.err = "none" /\ pk_reset') =>
          /\ pk_mon'.pkt = <<>>
          /\ pk_mon'.invalid_cyclecount = 0
          /\ pk_mon'.channel = NoChannel
          /\ ~pk_mon'.in_pkt
          /\ pk_mon'.err = "none"
          /\ pk_mon'.delivered = pk_mon.delivered
    /\ pk_mon'.delivered # pk_mon.delivered => PwLast(pk_mon').data = pk_hist'.bytes
    /\ (PwLiveCycle /\ PwAccepted(pk_bus', pk_cfg) /\ pk_hist.fresh
           /\ pk_bus'.startofpacket # "1") =>
          pk_mon'.err = "outside_packet"

\* C16: in a cycle in reset the packetized monitor clears its buffer, its
\* invalid-cycle counter and its channel, is Idle, and samples no wire: it
\* accepts nothing, raises nothing, delivers nothing.  No word accepted
\* before the reset is part of a later delivery, and the first word accepted
\* after the reset raises unless it carries start-of-packet
C16_ResetClearsMonitor == [][C16_Step]_vars

\* a packet was open when reset came, and the word accepted next, without
\* start-of-packet, raised
C16_Witness ==
    /\ pk_mon.err = "outside_packet"
    /\ pk_hist.n = 2
    /\ pk_mon.delivered = <<>>

C17_Step == pk_mon.err # "none" => pk_mon' = pk_mon

\* C17: once the packetized monitor has raised, its task has ended: it
\* delivers nothing more and stays as it is, whatever the wires carry
C17_ErrorIsTerminal == [][C17_Step]_vars

\* after a stall timeout the wires carried a word that is a whole packet
C17_Witness ==
    /\ pk_mon.err = "timeout"
    /\ pk_hist.dead
    /\ ~pk_reset
    /\ PwAccepted(pk_bus, pk_cfg)
    /\ pk_bus.startofpacket = "1" /\ pk_bus.endofpacket = "1"
    /\ IsResolvable(pk_bus.data)

\* C18: a burst request with an address off the word boundary, a byte-enable
\* short of the whole word or a burst count of 0 fails and has no effect:
\* no read-data word is streamed back for it and the store is not changed.
\* Stated for a responder that is driven with such requests only, on an
\* empty store
C18_InvalidBurstHasNoEffect ==
    /\ mm_mem.mem = <<>>
    /\ mm_bus.readdatavalid # "1"

\* the constructor found a units property other than "symbols"
UnitsRefused == mm_mem.diag \cap {"burstCountUnits", "addressUnits"} # {}

\* C19: a responder constructed with burstCountUnits or addressUnits other
\* than "symbols" does not come to be: nothing reacts to the strobes of the
\* bus, so no response is queued or driven and nothing is stored
C19_NoResponderOnOtherUnits ==
    UnitsRefused =>
        /\ mm_mem.mem = <<>>
        /\ mm_mem.responses = <<>>
        /\ mm_bus.readdatavalid # "1"

\* C20: every entry of the responder's store maps an address to one byte,
\* a value in 0..255, whichever request wrote it
C20_StoreHoldsBytes ==
    \A a \in DOMAIN mm_mem.mem : mm_mem.mem[a] \in 0..255

\* what the declared table and the instance's own overrides resolve to
ApOwn(given) == ApResolve(ApDefaults, given)

\* C21: the configuration of a responder is resolved once from the declared
\* defaults and its own overrides: whatever is constructed before or after
\* it, every responder sees the declared table with its own overrides
C21_ConfigurationIsPerInstance ==
    \A i \in 1..Len(ap_made) : ApSeen(i) = ApOwn(ap_made[i].given)

\* a step into the read-only phase, a step over a rising edge
MaRoStep == mm_phase = "drive" /\ mm_phase' = "ro"

MaEdgeStep == mm_phase = "ro" /\ mm_phase' = "drive"

\* the read of caller k returned in this step with the word on readdata
MaReturned(k) ==
    /\ mm_call'[k].pc = "idle"
    /\ mm_hist'.log # <<>>
    /\ mm_hist'.log[1].caller = k
    /\ mm_hist'.log[1].op = "read"
    /\ mm_hist'.log[1].ret = mm_bus.readdata

MaReadStep(k) ==
    LET c  == mm_call[k]
        c2 == mm_call'[k]
    IN  c.op = "read" =>
        /\ c.pc \in {"r_wait", "r_e2"} =>
              /\ mm_bus.read = "1"
              /\ mm_bus.address = IntToBits(c.addr, MmAddrBits)
        /\ c.pc = "r_wait" /\ MaRoStep =>
              c2.pc = IF mm_bus.waitrequest = "0" THEN "r_e2" ELSE "r_wait"
        /\ c.pc = "r_wait" /\ MaEdgeStep => c2.pc = "r_wait"
        /\ c.pc = "r_e2" /\ MaRoStep => c2.pc = "r_e2"
        /\ c.pc = "r_e2" /\ MaEdgeStep =>
              /\ mm_bus'.read = "0"
              /\ mm_bus'.address = XBits(MmAddrBits)
              /\ mm_cfg.hasByteEnable => mm_bus'.byteenable = ZeroBits(MmDataBytes)
              /\ c2.pc = "r_sample"
        /\ c.pc = "r_sample" /\ MaRoStep =>
              IF mm_cfg.hasReadDataValid /\ mm_bus.readdatavalid # "1"
              THEN c2.pc = "r_poll" /\ mm_hist'.log = mm_hist.log
              ELSE MaReturned(k)
        /\ c.pc = "r_poll" /\ MaEdgeStep => c2.pc = "r_sample"
        /\ c.pc \in {"r_sample", "r_poll"} =>
              mm_bus.read = "0" /\ mm_bus.address = XBits(MmAddrBits)

C22_Step == \A k \in 1..MmCallers : MaReadStep(k)

\* C22: a master read keeps address and read strobe up until the cycle in
\* which wait-request is seen low, deasserts and blanks the address at the
\* next edge, and returns the readdata of the first read-only phase from
\* that edge on in which readdatavalid is up, or of that very cycle on a bus
\* without readdatavalid
C22_ReadHoldsAndSamples == [][C22_Step]_vars

C22_Witness ==
    /\ mm_cfg.hasWaitRequest /\ mm_cfg.hasReadDataValid
    /\ mm_hist.log # <<>>
    /\ mm_hist.log[1].op = "read"
    /\ mm_hist.log[1].ret = IntToBits(WordOf(160, MmDataBytes), MmDataBits)
    /\ mm_bus.waitrequest = "1"

\* what readdata carries for a response
ObWord(resp) ==
    IF resp.kind = "unknown" THEN XBits(MmDataBits) ELSE IntToBits(resp.value, MmDataBits)

\* wait-request is up for the two cycles after the request and down then
ObWaitRequest ==
    /\ (mm_obs.since = 0 /\ mm_phase = "mid") \/ mm_obs.since = 1 => mm_bus.waitrequest = "1"
    /\ mm_obs.since = 2 => mm_bus.waitrequest = "0"

\* no word before readLatency further edges, then the n words in ascending
\* order from the address of the request, one per edge
ObStream ==
    LET k == mm_obs.since - (2 + mm_cfg.readLatency)
    IN  /\ k <= 0 => mm_bus.readdatavalid = "0"
        /\ k \in 1..mm_obs.n =>
              /\ mm_bus.readdatavalid = "1"
              /\ mm_bus.readdata = ObWord(mm_obs.words[k])

\* data-valid is down in the cycle after the last word
ObAfter == mm_obs.since = ObLast(mm_obs, mm_cfg) => mm_bus.readdatavalid = "0"

\* C23: a valid burst read of n words is answered with wait-request up for
\* two cycles, readLatency cycles more, the n words with data-valid in n
\* cycles in a row in ascending order from the address asked, and data-valid
\* down in the cycle after the last word
C23_BurstReadTiming ==
    mm_obs.since >= 0 => ObWaitRequest /\ ObStream /\ ObAfter

\* k "no data" placeholders
Nones(k) == [i \in 1..k |-> RespNone]

\* the task samples a non-burst read strobe in this step
RdSampled ==
    /\ mm_phase = "drive" /\ mm_phase' = "ro"
    /\ mm_mem.pc = "ro"
    /\ ~mm_cfg.hasBurstCount
    /\ mm_bus.read = "1"
    /\ IsResolvable(mm_bus.address)

\* the response for the address on the wires: the stored value or "unknown"
RdResponse ==
    LET addr == BitsToInt(mm_bus.address)
    IN  IF addr \in DOMAIN mm_mem.mem THEN RespValue(mm_mem.mem[addr]) ELSE RespUnknown

C24_Step ==
    RdSampled =>
        \E l \in mm_cfg.latMin..mm_cfg.latMax :
            LET k == IF l > Len(mm_mem.responses) THEN l - Len(mm_mem.responses) ELSE 0
            IN  mm_mem'.responses = mm_mem.responses \o Nones(k) \o <<RdResponse>>

\* C24: on every sampled non-burst read strobe the responder draws l in
\* readlatency_min..readlatency_max, fills its queue with "no data"
\* placeholders up to l entries (none when it holds l or more), and then
\* appends the response for the address
C24_PadUpToLatency == [][C24_Step]_vars

C24_Original_Step ==
    RdSampled =>
        \E k \in mm_cfg.latMin..mm_cfg.latMax :
            mm_mem'.responses = mm_mem.responses \o Nones(k) \o <<RdResponse>>

\* as stated: k placeholders with readlatency_min <= k <= readlatency_max are
\* appended whatever the queue holds
C24_PadByLatency == [][C24_Original_Step]_vars

\* two responses wait in the queue: the later was appended to a queue that
\* was not empty
C24_Witness ==
    /\ ~mm_cfg.hasBurstCount
    /\ mm_cfg.latMin >= 1
    /\ \E i, j \in 1..Len(mm_mem.responses) :
          i < j /\ mm_mem.responses[i].kind # "none" /\ mm_mem.responses[j].kind # "none"

\* C25: the stalls the responder puts into a burst write are bounded and end
\* with wait-request down, so a write strobe is never stalled forever: the
\* responder task, the only writer of wait-request, never ends with the
\* wire up under a write strobe.  With WriteBurstWaitReq disabled wait-request
\* is never up for a write: it is up in the two cycles of a burst read only
C25_WriteStallsEnd ==
    /\ mm_mem.pc = "failed" /\ mm_bus.write = "1" => mm_bus.waitrequest = "0"
    /\ mm_cfg.hasBurstCount /\ ~mm_cfg.writeBurstWaitReq /\ mm_bus.waitrequest = "1" =>
          mm_mem.pc \in {"br_e1", "br_e2"}

\* the words the packetized driver has had accepted in the send under way
PdWords == pk_hist.words

\* the payload of the send under way or just ended
PdLength == Len(pk_calls[1].string)

\* ceil(L / W)
PdCeil(l, w) == (l + w - 1) \div w

\* word i of the send under way is framed as the payload's length asks
PdFramed(i, sop, eop, empty) ==
    LET n == PdCeil(PdLength, PkWordBytes)
    IN  /\ i <= n
        /\ sop = (IF i = 1 THEN "1" ELSE "0")
        /\ eop = (IF i = n THEN "1" ELSE "0")
        /\ empty = IntToBits(IF i = n
                             THEN (PkWordBytes - (PdLength % PkWordBytes)) % PkWordBytes
                             ELSE 0, PkEmptyBits)
        /\ BitsToInt(empty) < PkWordBytes

\* the words accepted so far
PdFraming ==
    \A i \in 1..Len(PdWords) :
        PdFramed(i, PdWords[i].sop, PdWords[i].eop, PdWords[i].empty)

\* the word on the wires, which follows the accepted ones
PdPresented ==
    pk_bus.valid = "1" =>
        PdFramed(Len(PdWords) + 1, pk_bus.startofpacket, pk_bus.endofpacket, pk_bus.empty)

\* C26: a payload of L bytes goes out as ceil(L / W) words with valid,
\* start-of-packet on the first word only, end-of-packet on the last only,
\* empty 0 on the words without end-of-packet and (W - L mod W) mod W on the
\* word with it
C26_PacketFraming ==
    (pk_calls # <<>> /\ pk_drv.err = "none" /\ pk_mon.err = "none") =>
        /\ PdFraming
        /\ PdPresented
        /\ pk_drv.pc = "idle" => Len(PdWords) = PdCeil(PdLength, PkWordBytes)

C26_Witness ==
    /\ pk_calls # <<>>
    /\ PdLength = PkWordBytes + 1
    /\ pk_cfg.hasReady /\ pk_cfg.throttled
    /\ pk_drv.pc = "idle"
    /\ Len(PdWords) = 2
    /\ pk_mon.err = "none"

\* the packetized monitor, alive, accepted a word with end-of-packet and a
\* non-zero empty count, and delivered
C27_Case ==
    /\ pk_mon.err = "none" /\ pk_mon'.err = "none"
    /\ ~pk_reset'
    /\ PwAccepted(pk_bus', pk_cfg)
    /\ pk_bus'.endofpacket = "1"
    /\ pk_cfg.useEmpty /\ BitsToInt(pk_bus'.empty) # 0

\* the word sampled without e * dataBitsPerSymbol bits of its high-order or
\* of its low-order end
C27_Kept(fromHigh) ==
    LET e == BitsToInt(pk_bus'.empty) * pk_cfg.dataBitsPerSymbol
    IN  IF fromHigh THEN SubSeq(pk_bus'.data, e + 1, Len(pk_bus'.data))
        ELSE SubSeq(pk_bus'.data, 1, Len(pk_bus'.data) - e)

\* the packet delivered in this step is the buffer and the bytes of what is
\* kept of the word
C27_Delivers(fromHigh) ==
    /\ Len(pk_mon'.delivered) = Len(pk_mon.delivered) + 1
    /\ PwLast(pk_mon').data = pk_mon.pkt \o GetBuff(C27_Kept(fromHigh), pk_cfg.bigEndian)

C27_Step == C27_Case => C27_Delivers(~pk_cfg.bigEndian)

\* C27: on an accepted end-of-packet word with a non-zero empty count e the
\* packetized monitor removes e * dataBitsPerSymbol bits from the word before
\* appending it: from the trailing (low-order) end when
\* firstSymbolInHighOrderBits is true, from the leading (high-order) end
\* otherwise
C27_EmptyStrippedFromLastSymbols == [][C27_Step]_vars

C27_Original_Step == C27_Case => C27_Delivers(pk_cfg.bigEndian)

\* C27 as stated: the bits are removed from the leading (high-order) end
\* when firstSymbolInHighOrderBits is true, from the trailing (low-order) end
\* otherwise
C27_EmptyStrippedAsStated == [][C27_Original_Step]_vars

\* a packet of two words was delivered whose last word left a symbol empty
C27_Witness ==
    /\ pk_mon.err = "none"
    /\ ~pk_reset
    /\ PwAccepted(pk_bus, pk_cfg)
    /\ pk_bus.endofpacket = "1" /\ BitsToInt(pk_bus.empty) = 1
    /\ pk_mon.delivered # <<>>
    /\ Len(PwLast(pk_mon).data) = 2 * PkWordBytes - 1

\* what is left of the word sampled after the empty symbols are taken off
C28_Masked ==
    IF pk_cfg.useEmpty /\ BitsToInt(pk_bus'.empty) # 0
    THEN C27_Kept(~pk_cfg.bigEndian)
    ELSE pk_bus'.data

\* the packetized monitor, alive and inside a packet, accepted a word with
\* end-of-packet whose data, after masking, holds unknown bits
C28_Case ==
    /\ pk_mon.err = "none"
    /\ ~pk_reset'
    /\ PwAccepted(pk_bus', pk_cfg)
    /\ pk_bus'.endofpacket = "1"
    /\ IF pk_bus'.startofpacket = "1" THEN pk_mon.pkt = <<>> ELSE pk_mon.in_pkt
    /\ IsResolvable(pk_bus'.empty)
    /\ ~IsResolvable(C28_Masked)

C28_Step ==
    C28_Case =>
        /\ pk_mon'.err = "unresolvable"
        /\ pk_mon'.delivered = pk_mon.delivered

\* C28: an accepted end-of-packet word whose data holds unknown bits after
\* the empty symbols are masked makes the packetized monitor raise the
\* protocol error of unresolvable data, whatever the empty count, 0
\* included, and the packet is not delivered
C28_UnknownDataIsProtocolError == [][C28_Step]_vars

\* the word-level driver holds a word presented while ready is low
C29_StHeld ==
    (st_cfg.hasReady /\ st_valid = "1" /\ st_ready = "0") =>
        /\ st_valid' = "1"
        /\ st_data' = st_data

\* the word-level monitor has delivered the words of the sends that returned
C29_StDelivered == st_recv = [i \in 1..StCompleted |-> StExpected(st_sent[i])]

\* the packetized driver holds a word presented while ready is low
C29_PkHeld ==
    (pk_cfg.hasReady /\ pk_bus.valid = "1" /\ pk_bus.ready = "0") =>
        /\ pk_bus'.valid = "1"
        /\ pk_bus'.data = pk_bus.data
        /\ pk_bus'.startofpacket = pk_bus.startofpacket
        /\ pk_bus'.endofpacket = pk_bus.endofpacket
        /\ pk_bus'.empty = pk_bus.empty

\* the payloads of the sends of the packetized driver that returned
SsReturned ==
    [i \in 1..(Len(pk_calls) - (IF pk_drv.pc = "idle" THEN 0 ELSE 1)) |-> pk_calls[i].string]

\* what the packetized monitor delivered
SsDelivered == [i \in 1..Len(pk_mon.delivered) |-> pk_mon.delivered[i].data]

\* a stall inside a packet has reached the monitor's non-zero invalidTimeout
SsTimedOut == pk_cfg.invalidTimeout > 0 /\ pk_hist.stall >= pk_cfg.invalidTimeout

SsNonEmpty(string) == string # <<>>

\* the clock of the word-level bus runs for ever, and ready is high in
\* the read-only phase of cycle after cycle
SsStReadyOften ==
    /\ []<>(st_phase = "drive")
    /\ []<>(st_phase = "ro" /\ st_ready = "1")

\* the clock of the packetized bus runs for ever, and ready is high in
\* cycle after cycle
SsPkReadyOften ==
    /\ []<>(pk_phase = "drive") /\ []<>(pk_phase = "again")
    /\ []<>(pk_bus.ready = "1")

\* a send is under way on the word-level bus, on the packetized bus
SsStSending == st_drv.pc # "idle"

SsPkSending == pk_drv.pc # "idle"

C29_Step ==
    /\ C29_StHeld
    /\ C29_PkHeld
    /\ C29_StDelivered'
    /\ ~SsTimedOut' => SsDelivered' = SelectSeq(SsReturned', SsNonEmpty)

C29_Original_Step ==
    /\ C29_StHeld
    /\ C29_PkHeld
    /\ C29_StDelivered'
    /\ SsDelivered' = SsReturned'

LockHolder(k) == mm_call[k].pc \notin {"idle", "lock", "failed", "done"}

\* the call of caller k ended at its capability check
LockRefused(k) == mm_call[k].pc = "failed" /\ mm_call[k].err = "TestError"

\* C30: the lock of the master is never leaked: a read or write that fails
\* its capability check has not taken it, and whenever the lock is held, the
\* read or write that took it is still under way and will release it
C30_LockNeverLeaked ==
    /\ (\A k \in 1..MmCallers : ~LockHolder(k)) => ~mm_busy
    /\ \A k \in 1..MmCallers : LockRefused(k) /\ mm_hist.calls = 1 => ~mm_busy

\* the responses of a queue without its "no data" placeholders
RdAnswers(responses) == SelectSeq(responses, LAMBDA r : r.kind # "none")

\* the read strobe on the wires that the task samples next
RdStrobed == mm_phase = "drive" /\ mm_mem.pc = "ro" /\ mm_bus.read = "1"

\* what readdata carries for a response
RdWires(resp) ==
    IF resp.kind = "unknown" THEN XBits(MmDataBits) ELSE IntToBits(resp.value, MmDataBits)

\* the responses owed for the strobes the bus master drove are the answers
\* in the queue, in the order of the strobes, and the one for the strobe
\* that is on the wires
C31_Owed ==
    (~mm_cfg.hasBurstCount /\ mm_mem.pc # "failed") =>
        mm_hist.pending = RdAnswers(mm_mem.responses)
                          \o (IF RdStrobed THEN <<RdResponse>> ELSE <<>>)

\* a rising edge of the non-burst responder
RdEdge == ~mm_cfg.hasBurstCount /\ mm_phase = "ro" /\ mm_phase' = "drive"

\* at an edge the head of the queue is driven when it is a response, with
\* data-valid up, and nothing is driven with data-valid down when it is a
\* placeholder or the queue is empty; between edges the wires stay
C31_Step ==
    /\ (RdEdge /\ MemDrives(mm_mem)) =>
          /\ mm_hist.pending # <<>>
          /\ mm_bus'.readdata = RdWires(Head(mm_hist.pending))
          /\ mm_cfg.hasReadDataValid => mm_bus'.readdatavalid = "1"
          /\ RdAnswers(mm_mem'.responses) = Tail(RdAnswers(mm_mem.responses))
    /\ (RdEdge /\ ~MemDrives(mm_mem)) =>
          /\ mm_bus'.readdata = mm_bus.readdata
          /\ mm_cfg.hasReadDataValid => mm_bus'.readdatavalid = "0"
          /\ RdAnswers(mm_mem'.responses) = RdAnswers(mm_mem.responses)
    /\ (~mm_cfg.hasBurstCount /\ mm_phase = "drive" /\ mm_phase' = "ro") =>
          /\ mm_bus'.readdata = mm_bus.readdata
          /\ mm_bus'.readdatavalid = mm_bus.readdatavalid

\* C31: non-burst read responses are first in, first out: for read strobes
\* in any cycles and any latencies drawn, every sampled strobe gets exactly
\* one response, the responses are driven in the order of the strobes, none
\* is dropped or overtaken, and data-valid is up in exactly the cycles in
\* which a response (value or unknown) is driven
C31_ReadResponsesFifo == [][C31_Owed /\ C31_Owed' /\ C31_Step]_vars

\* a response is on the wires with data-valid up while two more, an unknown
\* one and a value, wait in the queue behind a placeholder: strobes in
\* consecutive cycles with different latencies drawn
C31_Witness ==
    /\ ~mm_cfg.hasBurstCount /\ mm_cfg.hasReadDataValid
    /\ mm_cfg.latMin < mm_cfg.latMax
    /\ mm_bus.readdatavalid = "1"
    /\ mm_mem.responses # <<>> /\ mm_mem.responses[1].kind = "none"
    /\ \E i, j \in 1..Len(mm_mem.responses) :
          /\ i < j
          /\ mm_mem.responses[i].kind = "unknown"
          /\ mm_mem.responses[j].kind = "value"

====
